---- MODULE Spec2Model ----
(***************************************************************************)
(* A model of the web console's client-side state engine:                  *)
(*   - the data store (public/js/data-store.js): accounts, models,         *)
(*     modelConfig, the filtered quota rows and the unfiltered aggregate;  *)
(*   - the dashboard component (public/js/components/dashboard.js): usage  *)
(*     history, the model tree, the chart selection and its persistence,  *)
(*     the summary counters and the charts.                                *)
(*   - the models view (unnamed/part_000): updateModelConfig;              *)
(*   - the app controller (public/app.js): the refresh timer.              *)
(*                                                                         *)
(* Strings are sequences of one-character strings, so that toLowerCase,    *)
(* includes, split and the default sort order are computed as JavaScript   *)
(* computes them.  A nullable value is <<>> (null/undefined) or <<v>>.     *)
(* remainingFraction is held in thousandths (500 is 0.5).                  *)
(***************************************************************************)
EXTENDS Integers, Sequences, FiniteSets, TLC

VARIABLES
    server,            \* what GET /account-limits answers (the environment)
    accounts,          \* data-store.js:11
    models,            \* data-store.js:12
    modelConfig,       \* data-store.js:13
    quotaRows,         \* data-store.js:14
    loading,           \* data-store.js:15
    connectionStatus,  \* data-store.js:16
    filters,           \* data-store.js:20
    settings,          \* Alpine.store('settings'): showExhausted, showHiddenModels
    toast,             \* the notifications raised through showToast, in order
    inflight,          \* the fetchData requests whose responses have not come
    fetchLog,          \* the responses fetchData has handled, in order of arrival
    stats,             \* dashboard.js:20
    quotaChart,        \* dashboard.js:21, charts.quotaDistribution
    liveQuota,         \* the Chart instances made for that slot and not destroyed
    historyData,       \* dashboard.js:25
    usageStats,        \* dashboard.js:24
    modelTree,         \* dashboard.js:28
    families,          \* dashboard.js:29
    displayMode,       \* dashboard.js:32
    selectedFamilies,  \* dashboard.js:35
    selectedModels,    \* dashboard.js:36
    hasTrendData,      \* dashboard.js:20, stats.hasTrendData
    trendChart,        \* dashboard.js:21, charts.usageTrend
    liveTrend,         \* the Chart instances made for that slot and not destroyed
    historyFetched,    \* whether a call of fetchHistory has run to its end
    storage,           \* localStorage['dashboard_chart_prefs']
    canvas,            \* the chart canvases are in the page and Chart is loaded
    now,               \* the clock, in hours
    lastOp,            \* the dashboard operation that ran last, with its argument
    threw,             \* whether that operation ended in an uncaught exception
    knownBefore,       \* the families and models of every modelTree before the last refresh
    lastDeselected,    \* the family or model the user last toggled off and has not selected since
    activeTab,         \* Alpine.store('global').activeTab
    refreshInterval,   \* Alpine.store('settings').refreshInterval
    refreshTimer,      \* app.js:82
    timers,            \* the interval timers set and not cleared, by id
    timerSeq           \* the id setInterval gave last

storeVars == <<server, accounts, models, modelConfig, quotaRows, loading,
               connectionStatus, filters, settings, toast, inflight, fetchLog,
               stats, quotaChart, liveQuota>>

dashVars == <<historyData, usageStats, modelTree, families, displayMode,
              selectedFamilies, selectedModels, hasTrendData, trendChart, storage,
              canvas, now, lastOp, threw, knownBefore, lastDeselected, liveTrend,
              historyFetched>>

appVars == <<activeTab, refreshInterval, refreshTimer, timers, timerSeq>>

----------------------------------------------------------------------------
(* Strings *)

Upper == <<"A","B","C","D","E","F","G","H","I","J","K","L","M",
           "N","O","P","Q","R","S","T","U","V","W","X","Y","Z">>
Lower == <<"a","b","c","d","e","f","g","h","i","j","k","l","m",
           "n","o","p","q","r","s","t","u","v","w","x","y","z">>

AllChars == {Upper[i] : i \in DOMAIN Upper} \cup {Lower[i] : i \in DOMAIN Lower}
            \cup {"-", ".", ":", "@", "_", "0", "1", "2", "3", "4", "5", "6", "7", "8", "9"}

\* the lower-case form of each character
LowerOf ==
    [c \in AllChars |->
        IF \E i \in DOMAIN Upper : Upper[i] = c
        THEN Lower[CHOOSE i \in DOMAIN Upper : Upper[i] = c]
        ELSE c]

ToLowerChar(c) == LowerOf[c]

\* String.prototype.toLowerCase
ToLowerCase(s) == [i \in DOMAIN s |-> ToLowerChar(s[i])]

\* String.prototype.includes
Includes(s, sub) ==
    \E i \in 0..(Len(s) - Len(sub)) : SubSeq(s, i + 1, i + Len(sub)) = sub

\* s.split(ch)[0]: the part of s before the first ch, all of s without one
SplitHead(s, ch) ==
    IF \E i \in DOMAIN s : s[i] = ch
    THEN SubSeq(s, 1, (CHOOSE i \in DOMAIN s :
                          s[i] = ch /\ \A j \in 1..(i - 1) : s[j] # ch) - 1)
    ELSE s

sClaude == <<"c","l","a","u","d","e">>
sGemini == <<"g","e","m","i","n","i">>
sOther  == <<"o","t","h","e","r">>
sUnknown == <<"u","n","k","n","o","w","n">>
sAll    == <<"a","l","l">>
sEmpty  == <<>>

----------------------------------------------------------------------------
(* Nullable values and arithmetic *)

Null == <<>>
Some(v) == <<v>>
IsNull(x) == x = <<>>
Val(x) == x[1]

MinOf(a, b) == IF a < b THEN a ELSE b

\* Math.floor(num / den) in the place of Math.round
RoundDiv_Floor(num, den) == num \div den

\* Math.round(num / den) for num >= 0, den > 0: halves round up
RoundDiv(num, den) == (2 * num + den) \div (2 * den)

----------------------------------------------------------------------------
(* The default string order of Array.prototype.sort: by character code *)

Ascii == <<"-",".","0","1","2","3","4","5","6","7","8","9",":","@",
           "A","B","C","D","E","F","G","H","I","J","K","L","M",
           "N","O","P","Q","R","S","T","U","V","W","X","Y","Z","_",
           "a","b","c","d","e","f","g","h","i","j","k","l","m",
           "n","o","p","q","r","s","t","u","v","w","x","y","z">>

CodeOf == [c \in AllChars |-> CHOOSE i \in DOMAIN Ascii : Ascii[i] = c]

CharCode(c) == CodeOf[c]

StrLess(s, t) ==
    \E i \in 1..(Len(t)) :
        /\ \A j \in 1..(i - 1) : j <= Len(s) /\ s[j] = t[j]
        /\ \/ i = Len(s) + 1
           \/ i <= Len(s) /\ CharCode(s[i]) < CharCode(t[i])

RECURSIVE InsertStr(_, _)
InsertStr(sorted, x) ==
    IF sorted = <<>> THEN <<x>>
    ELSE IF StrLess(x, Head(sorted)) THEN <<x>> \o sorted
    ELSE <<Head(sorted)>> \o InsertStr(Tail(sorted), x)

\* arr.sort() of an array of strings
RECURSIVE SortStrings(_)
SortStrings(arr) ==
    IF arr = <<>> THEN <<>>
    ELSE InsertStr(SortStrings(SubSeq(arr, 1, Len(arr) - 1)), arr[Len(arr)])

SeqIncludes(arr, x) == \E i \in DOMAIN arr : arr[i] = x

----------------------------------------------------------------------------
(* The data store: public/js/data-store.js *)

getModelFamily(modelId) ==
    LET lower == ToLowerCase(modelId)
    IN  IF Includes(lower, sClaude) THEN sClaude
        ELSE IF Includes(lower, sGemini) THEN sGemini
        ELSE sOther

EmptyConfig == [hidden |-> "undefined", pinned |-> "undefined"]

\* this.modelConfig[modelId] || {}
ConfigOf(config, modelId) ==
    IF modelId \in DOMAIN config THEN config[modelId] ELSE EmptyConfig

\* the family default alone, config.hidden ignored
EffectiveHidden_FamilyOnly(cfg, family) == family = sOther \/ family = sUnknown

\* let isHidden = config.hidden;
\* if (isHidden === undefined) isHidden = (family === 'other' || family === 'unknown');
EffectiveHidden(cfg, family) ==
    IF cfg.hidden = "undefined"
    THEN family = sOther \/ family = sUnknown
    ELSE cfg.hidden = "true"

\* if (!showExhausted && minQuota === 0) return;   (inverted flag)
DropExhausted_Inverted(showExhausted, minQuota) == showExhausted /\ minQuota = 0

\* if (!showExhausted && minQuota === 0) return;
DropExhausted(showExhausted, minQuota) == ~showExhausted /\ minQuota = 0

\* if (isHidden && !showHidden) return;   (toggle ignored)
SkipUnfiltered_NoToggle(isHidden, showHidden) == isHidden

\* if (isHidden && !showHidden) return;
SkipUnfiltered(isHidden, showHidden) == isHidden /\ ~showHidden

\* acc.limits?.[modelId] is truthy
HasLimit(acc, modelId) == modelId \in DOMAIN acc.limits

\* limit.remainingFraction !== null ? Math.round(limit.remainingFraction * 100) : 0
PctOf(limit) ==
    IF IsNull(limit.remainingFraction) THEN 0
    ELSE RoundDiv(Val(limit.remainingFraction) * 100, 1000)

PassesAccountFilter(acc, flt) ==
    flt.account = sAll \/ acc.email = flt.account

\* the accounts.forEach of computeQuotaRows, one account at a time
RECURSIVE CollectQuota(_, _, _, _)
CollectQuota(accs, modelId, flt, acc0) ==
    IF accs = <<>> THEN acc0
    ELSE
      LET acc == Head(accs)
      IN  IF ~PassesAccountFilter(acc, flt) \/ ~HasLimit(acc, modelId)
          THEN CollectQuota(Tail(accs), modelId, flt, acc0)
          ELSE
            LET limit == acc.limits[modelId]
                pct == PctOf(limit)
                reset ==
                  IF /\ ~IsNull(limit.resetTime)
                     /\ \/ IsNull(acc0.minResetTime)
                        \/ Val(limit.resetTime) < Val(acc0.minResetTime)
                  THEN limit.resetTime ELSE acc0.minResetTime
            IN  CollectQuota(Tail(accs), modelId, flt,
                  [minQuota |-> MinOf(acc0.minQuota, pct),
                   totalQuotaSum |-> acc0.totalQuotaSum + pct,
                   validAccountCount |-> acc0.validAccountCount + 1,
                   minResetTime |-> reset,
                   quotaInfo |-> Append(acc0.quotaInfo,
                       [email |-> SplitHead(acc.email, "@"),
                        fullEmail |-> acc.email,
                        pct |-> pct,
                        resetTime |-> limit.resetTime])])

CollectStart ==
    [minQuota |-> 100, totalQuotaSum |-> 0, validAccountCount |-> 0,
     minResetTime |-> Null, quotaInfo |-> <<>>]

\* the comparator of rows.sort: negative when a goes first
RowCompare(a, b) ==
    IF a.pinned # b.pinned THEN (IF a.pinned THEN -1 ELSE 1)
    ELSE b.avgQuota - a.avgQuota

RECURSIVE InsertRow(_, _)
InsertRow(sorted, x) ==
    IF sorted = <<>> THEN <<x>>
    ELSE IF RowCompare(x, Head(sorted)) < 0 THEN <<x>> \o sorted
    ELSE <<Head(sorted)>> \o InsertRow(Tail(sorted), x)

\* the rows left in the order the models were listed
SortRows_Unsorted(rows) == rows

\* rows.sort(comparator): a stable sort
RECURSIVE SortRows(_)
SortRows(rows) ==
    IF rows = <<>> THEN <<>>
    ELSE InsertRow(SortRows(SubSeq(rows, 1, Len(rows) - 1)), rows[Len(rows)])

\* the body of models.forEach in computeQuotaRows: the rows one model adds
RowsOfModel(modelId, accs, config, flt, showExhausted) ==
    LET cfg == ConfigOf(config, modelId)
        family == getModelFamily(modelId)
        isHidden == EffectiveHidden(cfg, family)
        c == CollectQuota(accs, modelId, flt, CollectStart)
        avgQuota == IF c.validAccountCount > 0
                    THEN RoundDiv(c.totalQuotaSum, c.validAccountCount) ELSE 0
    IN  IF isHidden THEN <<>>
        ELSE IF flt.family # sAll /\ flt.family # family THEN <<>>
        ELSE IF flt.search # sEmpty
                /\ ~Includes(ToLowerCase(modelId), ToLowerCase(flt.search)) THEN <<>>
        ELSE IF Len(c.quotaInfo) = 0 THEN <<>>
        ELSE IF DropExhausted(showExhausted, c.minQuota) THEN <<>>
        ELSE << [modelId |-> modelId,
                 displayName |-> modelId,
                 family |-> family,
                 minQuota |-> c.minQuota,
                 avgQuota |-> avgQuota,
                 minResetTime |-> c.minResetTime,
                 quotaInfo |-> c.quotaInfo,
                 pinned |-> (cfg.pinned = "true"),
                 hidden |-> isHidden] >>

RECURSIVE CollectRows(_, _, _, _, _)
CollectRows(mods, accs, config, flt, showExhausted) ==
    IF mods = <<>> THEN <<>>
    ELSE RowsOfModel(Head(mods), accs, config, flt, showExhausted)
         \o CollectRows(Tail(mods), accs, config, flt, showExhausted)

\* computeQuotaRows: the value it assigns to this.quotaRows
ComputeQuotaRows(mods, accs, config, flt, showExhausted) ==
    SortRows(CollectRows(mods, accs, config, flt, showExhausted))

\* the per-account loop of getUnfilteredQuotaData
RECURSIVE UnfilteredInfo(_, _)
UnfilteredInfo(accs, modelId) ==
    IF accs = <<>> THEN <<>>
    ELSE IF ~HasLimit(Head(accs), modelId) THEN UnfilteredInfo(Tail(accs), modelId)
    ELSE <<[pct |-> PctOf(Head(accs).limits[modelId])]>>
         \o UnfilteredInfo(Tail(accs), modelId)

RECURSIVE getUnfilteredQuotaData(_, _, _, _)
getUnfilteredQuotaData(mods, accs, config, showHidden) ==
    IF mods = <<>> THEN <<>>
    ELSE
      LET modelId == Head(mods)
          family == getModelFamily(modelId)
          isHidden == EffectiveHidden(ConfigOf(config, modelId), family)
          quotaInfo == UnfilteredInfo(accs, modelId)
          rest == getUnfilteredQuotaData(Tail(mods), accs, config, showHidden)
      IN  IF SkipUnfiltered(isHidden, showHidden) THEN rest
          ELSE IF Len(quotaInfo) = 0 THEN rest
          ELSE <<[modelId |-> modelId, family |-> family, quotaInfo |-> quotaInfo]>>
               \o rest

----------------------------------------------------------------------------
(* The dashboard's summary counters and quota chart: dashboard.js:492-632 *)

sSonnet == <<"s","o","n","n","e","t">>
sOpus   == <<"o","p","u","s">>
sPro    == <<"p","r","o">>
sFlash  == <<"f","l","a","s","h">>

\* /sonnet|opus|pro|flash/i.test(id)
isCore(id) ==
    \E w \in {sSonnet, sOpus, sPro, sFlash} : Includes(ToLowerCase(id), w)

\* l && l.remainingFraction >= 0.05
AboveFloor_Inclusive(limit) ==
    ~IsNull(limit.remainingFraction) /\ Val(limit.remainingFraction) >= 50

\* l && l.remainingFraction > 0.05
AboveFloor(limit) ==
    ~IsNull(limit.remainingFraction) /\ Val(limit.remainingFraction) > 50

\* accounts.filter(acc => acc.enabled !== false)
EnabledAccounts(accs) == SelectSeq(accs, LAMBDA acc : acc.enabled)

\* the classification of one enabled account in updateStats
IsActiveAccount(acc) ==
    /\ acc.status = "ok"
    /\ LET ids == DOMAIN acc.limits
           hasActiveCore == \E id \in ids : AboveFloor(acc.limits[id]) /\ isCore(id)
           hasAnyCore == \E id \in ids : isCore(id)
       IN  \/ hasActiveCore
           \/ ~hasAnyCore /\ \E id \in ids : AboveFloor(acc.limits[id])

\* the counters updateStats writes
ComputeStats(accs) ==
    LET enabled == EnabledAccounts(accs)
        act == Len(SelectSeq(enabled, IsActiveAccount))
    IN  [total |-> Len(enabled), active |-> act, limited |-> Len(enabled) - act]

RECURSIVE SumPct(_)
SumPct(info) == IF info = <<>> THEN 0 ELSE Head(info).pct + SumPct(Tail(info))

\* familyStats of updateCharts: used and total of one family over the rows
RECURSIVE FamilyUsed(_, _)
FamilyUsed(rows, family) ==
    IF rows = <<>> THEN 0
    ELSE (IF Head(rows).family = family THEN SumPct(Head(rows).quotaInfo) ELSE 0)
         + FamilyUsed(Tail(rows), family)

RECURSIVE FamilyTotal(_, _)
FamilyTotal(rows, family) ==
    IF rows = <<>> THEN 0
    ELSE (IF Head(rows).family = family THEN 100 * Len(Head(rows).quotaInfo) ELSE 0)
         + FamilyTotal(Tail(rows), family)

\* Object.keys(familyStats): the families of the rows, in order of first appearance
RECURSIVE FamilyKeys(_, _)
FamilyKeys(rows, seen) ==
    IF rows = <<>> THEN seen
    ELSE FamilyKeys(Tail(rows),
                    IF SeqIncludes(seen, Head(rows).family) THEN seen
                    ELSE Append(seen, Head(rows).family))

\* Object.values(familyStats).reduce((sum, f) => sum + f.total, 0)
RECURSIVE GlobalTotal(_, _)
GlobalTotal(keys, rows) ==
    IF keys = <<>> THEN 0
    ELSE FamilyTotal(rows, Head(keys)) + GlobalTotal(Tail(keys), rows)

\* Object.values(familyStats).reduce((sum, f) => sum + f.used, 0)
RECURSIVE GlobalUsed(_, _)
GlobalUsed(keys, rows) ==
    IF keys = <<>> THEN 0
    ELSE FamilyUsed(rows, Head(keys)) + GlobalUsed(Tail(keys), rows)

\* stats.overallHealth as updateCharts computes it from the unfiltered rows
OverallHealth(rows) ==
    LET keys == FamilyKeys(rows, <<>>)
        globalTotal == GlobalTotal(keys, rows)
        globalUsed == GlobalUsed(keys, rows)
    IN  IF globalTotal > 0 THEN RoundDiv(globalUsed * 100, globalTotal) ELSE 0

\* the doughnut's labels and data: two segments per family, families sorted;
\* a value v / n is held as [num |-> v, den |-> n]
RECURSIVE Segments(_, _, _)
Segments(fams, rows, n) ==
    IF fams = <<>> THEN <<>>
    ELSE
      LET family == Head(fams)
          total == FamilyTotal(rows, family)
          health == IF total > 0
                    THEN RoundDiv(FamilyUsed(rows, family) * 100, total) ELSE 0
      IN  << [label |-> <<family, "active">>, num |-> health, den |-> n],
             [label |-> <<family, "depleted">>, num |-> 100 - health, den |-> n] >>
          \o Segments(Tail(fams), rows, n)

QuotaChartOf(rows) ==
    LET fams == SortStrings(FamilyKeys(rows, <<>>))
    IN  Segments(fams, rows, Len(fams))

----------------------------------------------------------------------------
(* The inputs: what the snapshot endpoint answers, the filters, the settings *)

ClaudeOpus == <<"c","l","a","u","d","e","-","o","p","u","s">>
GeminiPro  == <<"G","e","m","i","n","i","-","P","r","o">>
GptOss     == <<"g","p","t","-","o","s","s">>

EmailA == <<"a","@","x",".","i","o">>
EmailB == <<"b","@","x",".","i","o">>

EmptyMap == [k \in {} |-> k]

Limit(rf, reset) == [remainingFraction |-> rf, resetTime |-> reset]

Config(hidden, pinned) == [hidden |-> hidden, pinned |-> pinned]

LimitsFull ==
    (ClaudeOpus :> Limit(Some(1000), Null)) @@ (GeminiPro :> Limit(Some(500), Some(3)))
        @@ (GptOss :> Limit(Some(0), Some(1)))
LimitsLow ==
    (ClaudeOpus :> Limit(Some(5), Some(2))) @@ (GeminiPro :> Limit(Null, Some(2)))
LimitsOther ==
    (ClaudeOpus :> Limit(Some(4), Null)) @@ (GptOss :> Limit(Some(500), Some(4)))

Account(email, enabled, status, limits) ==
    [email |-> email, enabled |-> enabled, status |-> status, limits |-> limits]

\* the accounts a snapshot can list
AccountPool ==
    { Account(EmailA, TRUE, "ok", LimitsFull),
      Account(EmailA, TRUE, "error", LimitsOther) }
    \cup
    { Account(EmailB, en, "ok", lm) : en \in BOOLEAN, lm \in {LimitsFull, LimitsLow} }

\* the largest number of accounts in a snapshot
MaxAccounts == 2

AccountLists ==
    UNION { [1..n -> AccountPool] : n \in 0..MaxAccounts }

ModelLists == { <<ClaudeOpus, GeminiPro, GptOss>>, <<GptOss, ClaudeOpus>> }

ConfigMaps ==
    { EmptyMap,
      (ClaudeOpus :> Config("true", "undefined")) @@ (GptOss :> Config("undefined", "true")),
      GptOss :> Config("false", "undefined"),
      GptOss :> Config("false", "true"),
      (GeminiPro :> Config("undefined", "true")) @@ (GptOss :> Config("false", "undefined")),
      (GeminiPro :> Config("true", "true")) @@ (GptOss :> Config("false", "false")) }

Snapshots ==
    [accounts : AccountLists, models : ModelLists, modelConfig : ConfigMaps]

sSearch == <<"O","P","U","S">>

Filters(account, family, search) ==
    [account |-> account, family |-> family, search |-> search]

FilterSet ==
    { Filters(sAll, sAll, sEmpty), Filters(EmailB, sAll, sEmpty),
      Filters(sAll, sGemini, sEmpty), Filters(sAll, sAll, sSearch),
      Filters(EmailB, sGemini, sSearch) }

SettingsSet == [showExhausted : BOOLEAN, showHiddenModels : BOOLEAN]

----------------------------------------------------------------------------
(* The data store's operations *)

InitStore ==
    /\ accounts = <<>>
    /\ models = <<>>
    /\ modelConfig = EmptyMap
    /\ quotaRows = <<>>
    /\ loading = FALSE
    /\ connectionStatus = "connecting"
    /\ toast = <<>>
    /\ inflight = {}
    /\ fetchLog = <<>>
    /\ stats = [total |-> 0, active |-> 0, limited |-> 0, overallHealth |-> 0]
    /\ quotaChart = Null
    /\ liveQuota = 0

\* this.models = data.models, whatever the list holds
StoredModels_Always(old, data) == data

\* if (data.models && data.models.length > 0) this.models = data.models;
StoredModels(old, data) == IF Len(data) > 0 THEN data ELSE old

\* fetchData, the request answered with an OK response (data-store.js:37-58, 64-66)
fetchDataOk ==
    /\ accounts' = server.accounts
    /\ models' = StoredModels(models, server.models)
    /\ modelConfig' = server.modelConfig
    /\ quotaRows' = ComputeQuotaRows(models', accounts', modelConfig', filters,
                                     settings.showExhausted)
    /\ connectionStatus' = "connected"
    /\ loading' = FALSE
    /\ UNCHANGED <<server, filters, settings, toast, inflight, fetchLog, stats, quotaChart, liveQuota>>
    /\ UNCHANGED dashVars
    /\ UNCHANGED appVars

\* computeQuotaRows, called by the models view (unnamed/part_000:11-25)
computeQuotaRows ==
    /\ quotaRows' = ComputeQuotaRows(models, accounts, modelConfig, filters,
                                     settings.showExhausted)
    /\ UNCHANGED <<server, accounts, models, modelConfig, loading, connectionStatus,
                   filters, settings, toast, inflight, fetchLog, stats, quotaChart, liveQuota>>
    /\ UNCHANGED dashVars
    /\ UNCHANGED appVars

\* updateStats (dashboard.js:492-524)
updateStats ==
    /\ stats' = [stats EXCEPT !.total = ComputeStats(accounts).total,
                              !.active = ComputeStats(accounts).active,
                              !.limited = ComputeStats(accounts).limited]
    /\ UNCHANGED <<server, accounts, models, modelConfig, quotaRows, loading,
                   connectionStatus, filters, settings, toast, inflight, fetchLog,
                   quotaChart, liveQuota>>
    /\ UNCHANGED dashVars
    /\ UNCHANGED appVars

\* a rebuild that makes the new Chart without destroying the one in the slot
LiveAfterRebuild_NoDestroy(old, live) == IF canvas THEN live + 1 ELSE live

\* the undestroyed instances of a slot after updateTrendChart or updateCharts:
\* nothing without the canvas; else the chart in the slot is destroyed and a
\* new one made (dashboard.js:345-350, 421; 527-532, 602)
LiveAfterRebuild(old, live) ==
    IF canvas THEN (IF IsNull(old) THEN live ELSE live - 1) + 1 ELSE live

\* updateCharts (dashboard.js:526-632)
updateCharts ==
    LET rows == getUnfilteredQuotaData(models, accounts, modelConfig,
                                       settings.showHiddenModels)
    IN  /\ stats' = IF canvas THEN [stats EXCEPT !.overallHealth = OverallHealth(rows)]
                     ELSE stats
        /\ quotaChart' = IF canvas THEN Some(QuotaChartOf(rows)) ELSE quotaChart
        /\ liveQuota' = LiveAfterRebuild(quotaChart, liveQuota)
        /\ UNCHANGED <<server, accounts, models, modelConfig, quotaRows, loading,
                       connectionStatus, filters, settings, toast, inflight, fetchLog>>
        /\ UNCHANGED dashVars
        /\ UNCHANGED appVars

----------------------------------------------------------------------------
(* The models view: unnamed/part_000 *)

\* how many notifications a behaviour raises
MaxToasts == 2

\* the patch alone, the keys it lacks cleared
MergeConfig_PatchOnly(old, patch) ==
    [hidden |-> IF "hidden" \in DOMAIN patch THEN patch.hidden ELSE "undefined",
     pinned |-> IF "pinned" \in DOMAIN patch THEN patch.pinned ELSE "undefined"]

\* { ...modelConfig[modelId], ...configUpdates }
MergeConfig(old, patch) ==
    [hidden |-> IF "hidden" \in DOMAIN patch THEN patch.hidden ELSE old.hidden,
     pinned |-> IF "pinned" \in DOMAIN patch THEN patch.pinned ELSE old.pinned]

\* updateModelConfig, the response being OK: the server has stored the patch
\* (unnamed/part_000:33-54)
updateModelConfigOk(modelId, configUpdates) ==
    LET merged == (modelId :> MergeConfig(ConfigOf(modelConfig, modelId), configUpdates))
                  @@ modelConfig
    IN  /\ modelConfig' = merged
        /\ quotaRows' = ComputeQuotaRows(models, accounts, merged, filters,
                                         settings.showExhausted)
        /\ server' = [server EXCEPT !.modelConfig =
                         (modelId :> MergeConfig(ConfigOf(@, modelId), configUpdates)) @@ @]
        /\ UNCHANGED <<accounts, models, loading, connectionStatus, filters, settings,
                       toast, inflight, fetchLog, stats, quotaChart, liveQuota>>
        /\ UNCHANGED dashVars
        /\ UNCHANGED appVars

\* updateModelConfig, the response being non-OK or the request throwing
\* (unnamed/part_000:43-45, 55-57)
updateModelConfigFails(modelId, configUpdates) ==
    /\ Len(toast) < MaxToasts
    /\ toast' = Append(toast, [text |-> "Failed to update", type |-> "error"])
    /\ UNCHANGED <<server, accounts, models, modelConfig, quotaRows, loading,
                   connectionStatus, filters, settings, inflight, fetchLog, stats,
                   quotaChart, liveQuota>>
    /\ UNCHANGED dashVars
    /\ UNCHANGED appVars

\* the patches the pin and hide actions send
Patches ==
    UNION { [d -> {"true", "false"}] : d \in SUBSET {"hidden", "pinned"} }

ConfigSnapshots ==
    [accounts : { <<Account(EmailA, TRUE, "ok", LimitsFull)>> },
     models : { <<ClaudeOpus, GeminiPro, GptOss>> },
     modelConfig : { EmptyMap, GptOss :> Config("undefined", "true") }]

----------------------------------------------------------------------------
(* fetchData with its request and its response apart: calls can overlap *)

\* how many fetchData calls a behaviour makes
MaxFetches == 3

\* the calls made so far
Issued == Cardinality(inflight) + Len(fetchLog)

\* a response, once it has been handled
Handled(r, ok) == [id |-> r.id, snap |-> r.snap, ok |-> ok]

\* a response is applied only when no later call's response has been handled
ResponseApplies_NewestOnly(id, log) == \A i \in DOMAIN log : log[i].id < id

\* fetchData applies every OK response: nothing compares it with the calls made
\* since (data-store.js:46-48)
ResponseApplies(id, log) == TRUE

\* fetchData up to its await: the request leaves, and the server answers it
\* with what it holds (data-store.js:37-42; app.js:79, 85, 92)
fetchDataStart ==
    /\ Issued < MaxFetches
    /\ loading' = TRUE
    /\ inflight' = inflight \cup {[id |-> Issued + 1, snap |-> server]}
    /\ UNCHANGED <<server, accounts, models, modelConfig, quotaRows, connectionStatus,
                   filters, settings, toast, fetchLog, stats, quotaChart, liveQuota>>
    /\ UNCHANGED dashVars
    /\ UNCHANGED appVars

\* fetchData from its await on, the response being OK (data-store.js:44-58, 64-66)
fetchDataResponse(r) ==
    LET applies == ResponseApplies(r.id, fetchLog)
    IN  /\ r \in inflight
        /\ accounts' = IF applies THEN r.snap.accounts ELSE accounts
        /\ models' = IF applies THEN StoredModels(models, r.snap.models) ELSE models
        /\ modelConfig' = IF applies THEN r.snap.modelConfig ELSE modelConfig
        /\ quotaRows' = ComputeQuotaRows(models', accounts', modelConfig', filters,
                                         settings.showExhausted)
        /\ connectionStatus' = "connected"
        /\ loading' = FALSE
        /\ inflight' = inflight \ {r}
        /\ fetchLog' = Append(fetchLog, Handled(r, TRUE))
        /\ UNCHANGED <<server, filters, settings, toast, stats, quotaChart, liveQuota>>
        /\ UNCHANGED dashVars
        /\ UNCHANGED appVars

\* the catch block with this.accounts emptied as well
fetchDataFails_ClearsAccounts(r) ==
    /\ r \in inflight
    /\ accounts' = <<>>
    /\ connectionStatus' = "disconnected"
    /\ toast' = Append(toast, [text |-> "connectionLost", type |-> "error"])
    /\ loading' = FALSE
    /\ inflight' = inflight \ {r}
    /\ fetchLog' = Append(fetchLog, Handled(r, FALSE))
    /\ UNCHANGED <<server, models, modelConfig, quotaRows, filters, settings,
                   stats, quotaChart, liveQuota>>
    /\ UNCHANGED dashVars
    /\ UNCHANGED appVars

\* fetchData from its await on, the request having thrown or the response being
\* non-OK (data-store.js:44-46, 59-66)
fetchDataFails(r) ==
    /\ r \in inflight
    /\ connectionStatus' = "disconnected"
    /\ toast' = Append(toast, [text |-> "connectionLost", type |-> "error"])
    /\ loading' = FALSE
    /\ inflight' = inflight \ {r}
    /\ fetchLog' = Append(fetchLog, Handled(r, FALSE))
    /\ UNCHANGED <<server, accounts, models, modelConfig, quotaRows, filters, settings,
                   stats, quotaChart, liveQuota>>
    /\ UNCHANGED dashVars
    /\ UNCHANGED appVars

\* the snapshots the server holds over time; the last has no models list
FetchSnapshots ==
    { [accounts |-> <<Account(EmailA, TRUE, "ok", LimitsFull)>>,
       models |-> <<ClaudeOpus, GeminiPro>>, modelConfig |-> EmptyMap],
      [accounts |-> <<Account(EmailB, TRUE, "ok", LimitsLow)>>,
       models |-> <<GeminiPro>>,
       modelConfig |-> GeminiPro :> Config("undefined", "true")],
      [accounts |-> <<>>, models |-> <<>>, modelConfig |-> EmptyMap] }

\* the accounts or the quotas change on the server
serverChanges ==
    /\ server' \in FetchSnapshots \ {server}
    /\ UNCHANGED <<accounts, models, modelConfig, quotaRows, loading, connectionStatus,
                   filters, settings, toast, inflight, fetchLog, stats, quotaChart, liveQuota>>
    /\ UNCHANGED dashVars
    /\ UNCHANGED appVars


----------------------------------------------------------------------------
(* The app controller: public/app.js *)

\* how many times startAutoRefresh runs after init
MaxStarts == 2

\* the interval parseInt falls back to
DefaultInterval == 60

\* the values settings.refreshInterval can hold: a number, a string, undefined
NumV(n) == [kind |-> "number", num |-> n, str |-> <<>>]
StrV(s) == [kind |-> "string", num |-> 0, str |-> s]
Undefined == [kind |-> "undefined", num |-> 0, str |-> <<>>]

Digits == <<"0","1","2","3","4","5","6","7","8","9">>

IsDigit(c) == \E d \in DOMAIN Digits : Digits[d] = c

DigitVal(c) == (CHOOSE d \in DOMAIN Digits : Digits[d] = c) - 1

\* the number the leading digits of s spell, after acc
RECURSIVE ParseDigits(_, _)
ParseDigits(s, acc) ==
    IF s = <<>> \/ ~IsDigit(Head(s)) THEN acc
    ELSE ParseDigits(Tail(s), 10 * acc + DigitVal(Head(s)))

\* parseInt(v): a number as it is; a string by its sign and leading digits,
\* NaN (null here) when it has none
ParseInt(v) ==
    IF v.kind = "number" THEN Some(v.num)
    ELSE IF v.kind = "string"
    THEN LET neg == v.str # <<>> /\ Head(v.str) = "-"
             body == IF neg THEN Tail(v.str) ELSE v.str
         IN  IF body = <<>> \/ ~IsDigit(Head(body)) THEN Null
             ELSE Some(IF neg THEN 0 - ParseDigits(body, 0) ELSE ParseDigits(body, 0))
    ELSE Null

\* v is falsy: undefined, 0, ''
Falsy(v) ==
    \/ v.kind = "undefined"
    \/ v.kind = "number" /\ v.num = 0
    \/ v.kind = "string" /\ v.str = <<>>

\* parseInt(Alpine.store('settings')?.refreshInterval || 60)
IntervalOf(setting) ==
    ParseInt(IF Falsy(setting) THEN NumV(DefaultInterval) ELSE setting)

\* startAutoRefresh: the timer field, the timers set and the last id afterwards
\* (app.js:88-94)
StartAutoRefresh(timer, active, seq, setting) ==
    LET cleared == IF IsNull(timer) THEN active ELSE active \ {Val(timer)}
        interval == IntervalOf(setting)
        starts == ~IsNull(interval) /\ Val(interval) > 0
    IN  [refreshTimer |-> IF starts THEN Some(seq + 1) ELSE timer,
         timers |-> IF starts THEN cleared \cup {seq + 1} ELSE cleared,
         timerSeq |-> IF starts THEN seq + 1 ELSE seq]

\* the app controller after init() with a given setting and tab: refreshTimer
\* is null and startAutoRefresh runs once (app.js:60-82)
InitAppWith(setting, tab) ==
    /\ activeTab = tab
    /\ refreshInterval = setting
    /\ refreshTimer = StartAutoRefresh(Null, {}, 0, setting).refreshTimer
    /\ timers = StartAutoRefresh(Null, {}, 0, setting).timers
    /\ timerSeq = StartAutoRefresh(Null, {}, 0, setting).timerSeq

\* the app controller on the dashboard with the default interval
InitApp == InitAppWith(NumV(DefaultInterval), "dashboard")

\* the setting changes and the 'refresh-interval-changed' listener runs
\* startAutoRefresh (app.js:76, 88-94)
refreshIntervalChanged(setting) ==
    LET started == StartAutoRefresh(refreshTimer, timers, timerSeq, setting)
    IN  /\ timerSeq < MaxStarts + 1
        /\ refreshInterval' = setting
        /\ refreshTimer' = started.refreshTimer
        /\ timers' = started.timers
        /\ timerSeq' = started.timerSeq
        /\ UNCHANGED activeTab
        /\ UNCHANGED storeVars
        /\ UNCHANGED dashVars

\* a tick of the refresh timer: setInterval's callback calls fetchData
\* (app.js:92)
refreshTimerTick ==
    /\ timers # {}
    /\ fetchDataStart

----------------------------------------------------------------------------
(* The usage history feed: GET /api/stats/history *)

sTotalKey == <<"_","t","o","t","a","l">>
sTotalOld == <<"t","o","t","a","l">>
sSubtotal == <<"_","s","u","b","t","o","t","a","l">>
sColon    == ":"

\* one property of an hour bucket: a number, or an object of counts
Num(key, n) == [key |-> key, isObj |-> FALSE, num |-> n, fields |-> <<>>]
Obj(key, fields) == [key |-> key, isObj |-> TRUE, num |-> 0, fields |-> fields]
Fld(key, count) == [key |-> key, count |-> count]
Bucket(ts, data) == [ts |-> ts, data |-> data]

HasKey(entries, key) == \E i \in DOMAIN entries : entries[i].key = key
Get(entries, key) == entries[CHOOSE i \in DOMAIN entries : entries[i].key = key]

\* the clock's first reading, in hours
StartHour == 50

\* how many hours the clock advances
MaxTicks == 1

HistoryA ==
    << Bucket(StartHour - 25,
              << Obj(sGemini, <<Fld(sPro, 100), Fld(sSubtotal, 100)>>),
                 Num(sTotalKey, 100) >>),
       Bucket(StartHour - 1,
              << Obj(sClaude, <<Fld(sSonnet, 10), Fld(sOpus, 30), Fld(sSubtotal, 40)>>),
                 Obj(sGemini, <<Fld(sFlash, 5), Fld(sSubtotal, 5)>>),
                 Num(sTotalKey, 45) >>) >>

HistoryB ==
    << Bucket(StartHour - 24,
              << Num(sClaude, 7),
                 Obj(sGemini, <<Fld(sFlash, 10), Fld(sSubtotal, 10)>>),
                 Num(sTotalOld, 17) >>),
       Bucket(StartHour,
              << Obj(sClaude, <<Fld(sSonnet, 10), Fld(sSubtotal, 10)>>),
                 Num(sTotalKey, 10) >>) >>

\* what the history endpoint can answer
Feeds == { <<>>, HistoryA, HistoryB }

\* the preference record found in localStorage when the page loads
SavedPrefs ==
    { Null,
      Some([displayMode |-> "family",
            selectedFamilies |-> <<sClaude>>,
            selectedModels |-> (sClaude :> <<sOpus>>)]) }

----------------------------------------------------------------------------
(* The dashboard component: public/js/components/dashboard.js *)

\* arr.indexOf(x), 0 when absent
IndexOf(arr, x) ==
    IF SeqIncludes(arr, x)
    THEN CHOOSE i \in DOMAIN arr : arr[i] = x /\ \A j \in 1..(i - 1) : arr[j] # x
    ELSE 0

\* arr.splice(i, 1)
RemoveAt(arr, i) == SubSeq(arr, 1, i - 1) \o SubSeq(arr, i + 1, Len(arr))

\* the record with selectedModels left out of it
Prefs_NoModels(mode, selFams, selMods) ==
    [displayMode |-> mode, selectedFamilies |-> selFams, selectedModels |-> EmptyMap]

\* JSON.stringify of the three preference fields
Prefs(mode, selFams, selMods) ==
    [displayMode |-> mode, selectedFamilies |-> selFams, selectedModels |-> selMods]

\* a stored text that JSON.parse rejects
Unparsable == [garbage |-> TRUE]

\* the fields of a fresh component
DefaultPrefs == Prefs("model", <<>>, EmptyMap)

\* loadPreferences with selectedModels never read
LoadPreferences_NoModels(saved) ==
    IF IsNull(saved) \/ Val(saved) = Unparsable THEN DefaultPrefs
    ELSE LET prefs == Val(saved)
         IN  Prefs(IF "displayMode" \in DOMAIN prefs /\ prefs.displayMode # ""
                   THEN prefs.displayMode ELSE "model",
                   IF "selectedFamilies" \in DOMAIN prefs
                   THEN prefs.selectedFamilies ELSE <<>>,
                   EmptyMap)

\* loadPreferences on a fresh component: the three fields it leaves. A missing
\* record and a failing JSON.parse leave the defaults; prefs.x || default
LoadPreferences(saved) ==
    IF IsNull(saved) \/ Val(saved) = Unparsable THEN DefaultPrefs
    ELSE LET prefs == Val(saved)
         IN  Prefs(IF "displayMode" \in DOMAIN prefs /\ prefs.displayMode # ""
                   THEN prefs.displayMode ELSE "model",
                   IF "selectedFamilies" \in DOMAIN prefs
                   THEN prefs.selectedFamilies ELSE <<>>,
                   IF "selectedModels" \in DOMAIN prefs
                   THEN prefs.selectedModels ELSE EmptyMap)

\* the keys of one bucket that processHistory takes for families
IsFamilyEntry(e) == e.key # sTotalKey /\ e.key # sTotalOld /\ e.isObj

\* tree[key].add(modelName) for each non-_subtotal key of one family object
RECURSIVE AddModels(_, _)
AddModels(seen, fields) ==
    IF fields = <<>> THEN seen
    ELSE AddModels(IF Head(fields).key # sSubtotal /\ ~SeqIncludes(seen, Head(fields).key)
                   THEN Append(seen, Head(fields).key) ELSE seen,
                   Tail(fields))

\* the tree after the entries of one bucket: a sequence of [family, models],
\* in insertion order
RECURSIVE AddEntries(_, _)
AddEntries(tree, entries) ==
    IF entries = <<>> THEN tree
    ELSE
      LET e == Head(entries)
          t1 == IF ~IsFamilyEntry(e) THEN tree
                ELSE IF \E i \in DOMAIN tree : tree[i].family = e.key
                THEN [i \in DOMAIN tree |->
                        IF tree[i].family = e.key
                        THEN [tree[i] EXCEPT !.models = AddModels(@, e.fields)]
                        ELSE tree[i]]
                ELSE Append(tree, [family |-> e.key, models |-> AddModels(<<>>, e.fields)])
      IN  AddEntries(t1, Tail(entries))

RECURSIVE BuildTree(_, _)
BuildTree(tree, history) ==
    IF history = <<>> THEN tree
    ELSE BuildTree(AddEntries(tree, Head(history).data), Tail(history))

\* the tree with each family's models left in insertion order
ModelTreeOf_Unsorted(history) ==
    LET tree == BuildTree(<<>>, history)
    IN  [f \in {tree[i].family : i \in DOMAIN tree} |->
            (CHOOSE t \in {tree[i] : i \in DOMAIN tree} : t.family = f).models]

\* this.modelTree: family -> Array.from(models).sort()
ModelTreeOf(history) ==
    LET tree == BuildTree(<<>>, history)
    IN  [f \in {tree[i].family : i \in DOMAIN tree} |->
            SortStrings((CHOOSE t \in {tree[i] : i \in DOMAIN tree} : t.family = f).models)]

\* Object.keys(this.modelTree).sort()
FamiliesOf(history) ==
    LET tree == BuildTree(<<>>, history)
    IN  SortStrings([i \in DOMAIN tree |-> tree[i].family])

\* hourData._total || hourData.total || 0
HourTotal(data) ==
    IF HasKey(data, sTotalKey) /\ Get(data, sTotalKey).num # 0
    THEN Get(data, sTotalKey).num
    ELSE IF HasKey(data, sTotalOld) /\ Get(data, sTotalOld).num # 0
    THEN Get(data, sTotalOld).num
    ELSE 0

\* the running totals of processHistory; a local day starts at a multiple of 24
RECURSIVE UsageTotals(_, _, _)
UsageTotals(history, clock, acc0) ==
    IF history = <<>> THEN acc0
    ELSE
      LET b == Head(history)
          hourTotal == HourTotal(b.data)
          todayStart == clock - (clock % 24)
      IN  UsageTotals(Tail(history), clock,
            [total |-> acc0.total + hourTotal,
             today |-> acc0.today + (IF b.ts >= todayStart THEN hourTotal ELSE 0),
             thisHour |-> IF b.ts = clock THEN hourTotal ELSE acc0.thisHour])

\* autoSelectNew: the selection it leaves, and whether it saved the preferences
RECURSIVE ExtendModels(_, _)
ExtendModels(sel, tree) ==
    IF tree = <<>> THEN sel
    ELSE ExtendModels(IF SeqIncludes(sel, Head(tree)) THEN sel ELSE Append(sel, Head(tree)),
                      Tail(tree))

RECURSIVE ExtendSelection(_, _, _, _)
ExtendSelection(fams, selFams, selMods, tree) ==
    IF fams = <<>> THEN [selectedFamilies |-> selFams, selectedModels |-> selMods]
    ELSE
      LET family == Head(fams)
          f1 == IF SeqIncludes(selFams, family) THEN selFams ELSE Append(selFams, family)
          cur == IF family \in DOMAIN selMods THEN selMods[family] ELSE <<>>
          m1 == (family :> ExtendModels(cur, tree[family])) @@ selMods
      IN  ExtendSelection(Tail(fams), f1, m1, tree)

\* autoSelectNew without its second loop: only the first run selects
autoSelectNew_FirstRunOnly(selFams, selMods, fams, tree) ==
    IF Len(selFams) = 0 /\ DOMAIN selMods = {}
    THEN [selectedFamilies |-> fams,
          selectedModels |-> [f \in {fams[i] : i \in DOMAIN fams} |-> tree[f]],
          saved |-> TRUE]
    ELSE [selectedFamilies |-> selFams, selectedModels |-> selMods, saved |-> FALSE]

autoSelectNew(selFams, selMods, fams, tree) ==
    IF Len(selFams) = 0 /\ DOMAIN selMods = {}
    THEN [selectedFamilies |-> fams,
          selectedModels |-> [f \in {fams[i] : i \in DOMAIN fams} |-> tree[f]],
          saved |-> TRUE]
    ELSE [selectedFamilies |-> ExtendSelection(fams, selFams, selMods, tree).selectedFamilies,
          selectedModels |-> ExtendSelection(fams, selFams, selMods, tree).selectedModels,
          saved |-> FALSE]

\* hourData[family]?._subtotal || 0
SubtotalOf(data, family) ==
    IF HasKey(data, family) /\ Get(data, family).isObj
       /\ HasKey(Get(data, family).fields, sSubtotal)
    THEN Get(Get(data, family).fields, sSubtotal).count
    ELSE 0

\* (hourData[family] || {})[model] || 0
CountOf(data, family, model) ==
    IF HasKey(data, family) /\ Get(data, family).isObj
       /\ HasKey(Get(data, family).fields, model)
    THEN Get(Get(data, family).fields, model).count
    ELSE 0

\* the datasets of the model mode: for each family of this.families, one per
\* model of selectedModels[family]
RECURSIVE ModelDatasets(_, _, _)
ModelDatasets(fams, selMods, history) ==
    IF fams = <<>> THEN <<>>
    ELSE
      LET family == Head(fams)
          sel == IF family \in DOMAIN selMods THEN selMods[family] ELSE <<>>
      IN  [k \in DOMAIN sel |->
              [label |-> sel[k], family |-> family,
               data |-> [b \in DOMAIN history |->
                            CountOf(history[b].data, family, sel[k])]]]
          \o ModelDatasets(Tail(fams), selMods, history)

\* the labels and datasets updateTrendChart hands to new Chart; a label of the
\* x axis is the bucket's hour
TrendChartOf(mode, selFams, selMods, fams, history) ==
    [labels |-> [b \in DOMAIN history |-> history[b].ts],
     datasets |->
        IF mode = "family"
        THEN [k \in DOMAIN selFams |->
                [label |-> selFams[k], family |-> selFams[k],
                 data |-> [b \in DOMAIN history |->
                              SubtotalOf(history[b].data, selFams[k])]]]
        ELSE ModelDatasets(fams, selMods, history)]

\* updateTrendChart: the chart in charts.usageTrend afterwards
UpdatedTrendChart(old, mode, selFams, selMods, fams, history) ==
    IF canvas THEN Some(TrendChartOf(mode, selFams, selMods, fams, history)) ELSE old

\* usage[key] = (usage[key] || 0) + count
AddUsage(usage, key, count) ==
    IF \E i \in DOMAIN usage : usage[i].key = key
    THEN [i \in DOMAIN usage |->
            IF usage[i].key = key
            THEN [usage[i] EXCEPT !.count = @ + count] ELSE usage[i]]
    ELSE Append(usage, [key |-> key, count |-> count])

RECURSIVE AddFieldUsage(_, _, _)
AddFieldUsage(usage, family, fields) ==
    IF fields = <<>> THEN usage
    ELSE AddFieldUsage(IF Head(fields).key # sSubtotal
                       THEN AddUsage(usage, family \o <<sColon>> \o Head(fields).key,
                                     Head(fields).count)
                       ELSE usage,
                       family, Tail(fields))

RECURSIVE AddEntryUsage(_, _)
AddEntryUsage(usage, entries) ==
    IF entries = <<>> THEN usage
    ELSE AddEntryUsage(IF Head(entries).isObj /\ Head(entries).key # sTotalKey
                       THEN AddFieldUsage(usage, Head(entries).key, Head(entries).fields)
                       ELSE usage,
                       Tail(entries))

\* if (timestamp < dayAgo) return;   (every bucket counted)
InWindow_Always(ts, clock) == TRUE

\* if (timestamp < dayAgo) return;
InWindow(ts, clock) == ~(ts < clock - 24)

\* the usage object of autoSelectTopN, keys in insertion order
RECURSIVE UsageOf(_, _, _)
UsageOf(usage, history, clock) ==
    IF history = <<>> THEN usage
    ELSE UsageOf(IF InWindow(Head(history).ts, clock)
                 THEN AddEntryUsage(usage, Head(history).data) ELSE usage,
                 Tail(history), clock)

RECURSIVE InsertUsage(_, _)
InsertUsage(sorted, x) ==
    IF sorted = <<>> THEN <<x>>
    ELSE IF Head(sorted).count - x.count < 0 THEN <<x>> \o sorted
    ELSE <<Head(sorted)>> \o InsertUsage(Tail(sorted), x)

\* the usage entries left in insertion order
SortUsage_Unsorted(usage) == usage

\* Object.entries(usage).sort((a, b) => b[1] - a[1])
RECURSIVE SortUsage(_)
SortUsage(usage) ==
    IF usage = <<>> THEN <<>>
    ELSE InsertUsage(SortUsage(SubSeq(usage, 1, Len(usage) - 1)), usage[Len(usage)])

\* arr.slice(0, n) for n >= 0
SliceTo(arr, n) == SubSeq(arr, 1, IF n < Len(arr) THEN n ELSE Len(arr))

\* s.split(ch): the segments of s between the occurrences of ch
RECURSIVE Split(_, _)
Split(s, ch) ==
    IF ~SeqIncludes(s, ch) THEN <<s>>
    ELSE <<SplitHead(s, ch)>> \o Split(SubSeq(s, IndexOf(s, ch) + 1, Len(s)), ch)

\* the sorted.forEach of autoSelectTopN
RECURSIVE SelectKeys(_, _, _)
SelectKeys(keys, selFams, selMods) ==
    IF keys = <<>> THEN [selectedFamilies |-> selFams, selectedModels |-> selMods]
    ELSE
      LET parts == Split(Head(keys).key, sColon)
          family == parts[1]
          model == parts[2]
          cur == IF family \in DOMAIN selMods THEN selMods[family] ELSE <<>>
      IN  SelectKeys(Tail(keys),
                     IF SeqIncludes(selFams, family) THEN selFams ELSE Append(selFams, family),
                     (family :> Append(cur, model)) @@ selMods)

\* the selection autoSelectTopN(n) makes
TopNSelection(history, clock, n) ==
    SelectKeys(SliceTo(SortUsage(UsageOf(<<>>, history, clock)), n), <<>>, EmptyMap)

\* the default of autoSelectTopN's parameter
DefaultTopN == 5

TopNChoices == {1, DefaultTopN}

----------------------------------------------------------------------------
(* The dashboard's operations *)

Op(name) == [op |-> name, n |-> 0, firstRun |-> FALSE]

TreePairs(tree) ==
    UNION { {<<f, tree[f][i]>> : i \in DOMAIN tree[f]} : f \in DOMAIN tree }

\* the state after init(): the defaults, then loadPreferences (dashboard.js:19-42, 80-92)
InitDash ==
    /\ storage \in SavedPrefs
    /\ displayMode = LoadPreferences(storage).displayMode
    /\ selectedFamilies = LoadPreferences(storage).selectedFamilies
    /\ selectedModels = LoadPreferences(storage).selectedModels
    /\ historyData = <<>>
    /\ usageStats = [total |-> 0, today |-> 0, thisHour |-> 0]
    /\ modelTree = EmptyMap
    /\ families = <<>>
    /\ hasTrendData = FALSE
    /\ trendChart = Null
    /\ canvas \in BOOLEAN
    /\ now = StartHour
    /\ lastOp = Op("init")
    /\ threw = FALSE
    /\ knownBefore = [families |-> {}, pairs |-> {}]
    /\ lastDeselected = Null
    /\ liveTrend = 0
    /\ historyFetched = FALSE

\* fetchHistory answered OK: historyData, processHistory (with autoSelectNew and
\* updateTrendChart), hasTrendData (dashboard.js:106-117, 124-208)
fetchHistoryOk(history) ==
    LET tree == ModelTreeOf(history)
        fams == FamiliesOf(history)
        sel == autoSelectNew(selectedFamilies, selectedModels, fams, tree)
    IN  /\ historyData' = history
        /\ usageStats' = UsageTotals(history, now, [total |-> 0, today |-> 0, thisHour |-> 0])
        /\ modelTree' = tree
        /\ families' = fams
        /\ selectedFamilies' = sel.selectedFamilies
        /\ selectedModels' = sel.selectedModels
        /\ storage' = IF sel.saved
                      THEN Some(Prefs(displayMode, sel.selectedFamilies, sel.selectedModels))
                      ELSE storage
        /\ trendChart' = UpdatedTrendChart(trendChart, displayMode, sel.selectedFamilies,
                                           sel.selectedModels, fams, history)
        /\ hasTrendData' = TRUE
        /\ knownBefore' = [families |-> knownBefore.families \cup DOMAIN modelTree,
                           pairs |-> knownBefore.pairs \cup TreePairs(modelTree)]
        /\ lastOp' = [op |-> "processHistory", n |-> 0,
                       firstRun |-> (Len(selectedFamilies) = 0 /\ DOMAIN selectedModels = {})]
        /\ threw' = FALSE
        /\ liveTrend' = LiveAfterRebuild(trendChart, liveTrend)
        /\ historyFetched' = TRUE
        /\ UNCHANGED <<displayMode, canvas, now, lastDeselected>>
        /\ UNCHANGED storeVars
        /\ UNCHANGED appVars

\* fetchHistory answered with a non-OK status: nothing is done (dashboard.js:112)
fetchHistoryNotOk ==
    /\ historyFetched' = TRUE
    /\ UNCHANGED <<historyData, usageStats, modelTree, families, displayMode,
                   selectedFamilies, selectedModels, hasTrendData, trendChart, storage,
                   canvas, now, lastOp, threw, knownBefore, lastDeselected, liveTrend>>
    /\ UNCHANGED storeVars
    /\ UNCHANGED appVars

\* fetchHistory with the request throwing (dashboard.js:118-121)
fetchHistoryThrows ==
    /\ hasTrendData' = TRUE
    /\ historyFetched' = TRUE
    /\ UNCHANGED <<historyData, usageStats, modelTree, families, displayMode,
                   selectedFamilies, selectedModels, trendChart, storage,
                   canvas, now, lastOp, threw, knownBefore, lastDeselected,
                   liveTrend>>
    /\ UNCHANGED storeVars
    /\ UNCHANGED appVars

\* autoSelectTopN(n): the selection is replaced and saved; then this.refreshChart,
\* which no part of the component defines, is called (dashboard.js:210-255)
autoSelectTopN(n) ==
    LET sel == TopNSelection(historyData, now, n)
    IN  /\ selectedFamilies' = sel.selectedFamilies
        /\ selectedModels' = sel.selectedModels
        /\ storage' = Some(Prefs(displayMode, sel.selectedFamilies, sel.selectedModels))
        /\ threw' = TRUE
        /\ lastOp' = [op |-> "autoSelectTopN", n |-> n, firstRun |-> FALSE]
        /\ lastDeselected' = Null
        /\ UNCHANGED <<historyData, usageStats, modelTree, families, displayMode,
                       hasTrendData, trendChart, canvas, now, knownBefore,
                       liveTrend, historyFetched>>
        /\ UNCHANGED storeVars
        /\ UNCHANGED appVars

\* setDisplayMode (dashboard.js:258-262)
setDisplayMode(mode) ==
    /\ displayMode' = mode
    /\ storage' = Some(Prefs(mode, selectedFamilies, selectedModels))
    /\ trendChart' = UpdatedTrendChart(trendChart, mode, selectedFamilies, selectedModels,
                                       families, historyData)
    /\ lastOp' = Op("user")
    /\ threw' = FALSE
    /\ liveTrend' = LiveAfterRebuild(trendChart, liveTrend)
    /\ UNCHANGED <<historyData, usageStats, modelTree, families, selectedFamilies,
                   selectedModels, hasTrendData, canvas, now, knownBefore, lastDeselected,
                   historyFetched>>
    /\ UNCHANGED storeVars
    /\ UNCHANGED appVars

\* toggleFamily (dashboard.js:265-274)
toggleFamily(family) ==
    LET index == IndexOf(selectedFamilies, family)
        sel == IF index > 0 THEN RemoveAt(selectedFamilies, index)
               ELSE Append(selectedFamilies, family)
    IN  /\ selectedFamilies' = sel
        /\ storage' = Some(Prefs(displayMode, sel, selectedModels))
        /\ trendChart' = UpdatedTrendChart(trendChart, displayMode, sel, selectedModels,
                                           families, historyData)
        /\ lastDeselected' = IF index > 0 THEN Some(<<family>>)
                              ELSE IF lastDeselected = Some(<<family>>) THEN Null
                              ELSE lastDeselected
        /\ lastOp' = Op("user")
        /\ threw' = FALSE
        /\ liveTrend' = LiveAfterRebuild(trendChart, liveTrend)
        /\ UNCHANGED <<historyData, usageStats, modelTree, families, displayMode,
                       selectedModels, hasTrendData, canvas, now, knownBefore,
                       historyFetched>>
        /\ UNCHANGED storeVars
        /\ UNCHANGED appVars

\* toggleModel (dashboard.js:277-289)
toggleModel(family, model) ==
    LET cur == IF family \in DOMAIN selectedModels THEN selectedModels[family] ELSE <<>>
        index == IndexOf(cur, model)
        sel == (family :> (IF index > 0 THEN RemoveAt(cur, index) ELSE Append(cur, model)))
               @@ selectedModels
    IN  /\ selectedModels' = sel
        /\ storage' = Some(Prefs(displayMode, selectedFamilies, sel))
        /\ trendChart' = UpdatedTrendChart(trendChart, displayMode, selectedFamilies, sel,
                                           families, historyData)
        /\ lastDeselected' = IF index > 0 THEN Some(<<family, model>>)
                              ELSE IF lastDeselected = Some(<<family, model>>) THEN Null
                              ELSE lastDeselected
        /\ lastOp' = Op("user")
        /\ threw' = FALSE
        /\ liveTrend' = LiveAfterRebuild(trendChart, liveTrend)
        /\ UNCHANGED <<historyData, usageStats, modelTree, families, displayMode,
                       selectedFamilies, hasTrendData, canvas, now, knownBefore,
                       historyFetched>>
        /\ UNCHANGED storeVars
        /\ UNCHANGED appVars

\* selectAll (dashboard.js:302-309)
selectAll ==
    LET sel == [f \in {families[i] : i \in DOMAIN families} |-> modelTree[f]] @@ selectedModels
    IN  /\ selectedFamilies' = families
        /\ selectedModels' = sel
        /\ storage' = Some(Prefs(displayMode, families, sel))
        /\ trendChart' = UpdatedTrendChart(trendChart, displayMode, families, sel,
                                           families, historyData)
        /\ lastDeselected' = Null
        /\ lastOp' = Op("user")
        /\ threw' = FALSE
        /\ liveTrend' = LiveAfterRebuild(trendChart, liveTrend)
        /\ UNCHANGED <<historyData, usageStats, modelTree, families, displayMode,
                       hasTrendData, canvas, now, knownBefore,
                       historyFetched>>
        /\ UNCHANGED storeVars
        /\ UNCHANGED appVars

\* deselectAll (dashboard.js:312-317)
deselectAll ==
    /\ selectedFamilies' = <<>>
    /\ selectedModels' = EmptyMap
    /\ storage' = Some(Prefs(displayMode, <<>>, EmptyMap))
    /\ trendChart' = UpdatedTrendChart(trendChart, displayMode, <<>>, EmptyMap,
                                       families, historyData)
    /\ lastOp' = Op("user")
    /\ threw' = FALSE
    /\ liveTrend' = LiveAfterRebuild(trendChart, liveTrend)
    /\ UNCHANGED <<historyData, usageStats, modelTree, families, displayMode,
                   hasTrendData, canvas, now, knownBefore, lastDeselected,
                   historyFetched>>
    /\ UNCHANGED storeVars
    /\ UNCHANGED appVars

\* an hour passes
Tick ==
    /\ now < StartHour + MaxTicks
    /\ now' = now + 1
    /\ UNCHANGED <<historyData, usageStats, modelTree, families, displayMode,
                   selectedFamilies, selectedModels, hasTrendData, trendChart, storage,
                   canvas, threw, knownBefore, lastDeselected,
                   liveTrend, historyFetched>>
    /\ lastOp' = Op("tick")
    /\ UNCHANGED storeVars
    /\ UNCHANGED appVars

\* savePreferences (dashboard.js:94-104)
savePreferences ==
    /\ storage' = Some(Prefs(displayMode, selectedFamilies, selectedModels))
    /\ lastOp' = Op("savePreferences")
    /\ threw' = FALSE
    /\ UNCHANGED <<historyData, usageStats, modelTree, families, displayMode,
                   selectedFamilies, selectedModels, hasTrendData, trendChart,
                   canvas, now, knownBefore, lastDeselected,
                   liveTrend, historyFetched>>
    /\ UNCHANGED storeVars
    /\ UNCHANGED appVars

\* the page is loaded again: a fresh component, whose init calls loadPreferences
\* (dashboard.js:19-42, 80-92)
loadPreferences ==
    /\ displayMode' = LoadPreferences(storage).displayMode
    /\ selectedFamilies' = LoadPreferences(storage).selectedFamilies
    /\ selectedModels' = LoadPreferences(storage).selectedModels
    /\ lastOp' = Op("loadPreferences")
    /\ threw' = FALSE
    /\ UNCHANGED <<historyData, usageStats, modelTree, families, hasTrendData,
                   trendChart, storage, canvas, now, knownBefore, lastDeselected,
                   liveTrend, historyFetched>>
    /\ UNCHANGED storeVars
    /\ UNCHANGED appVars

vars == <<storeVars, dashVars, appVars>>

\* the data store before any snapshot has come, with its inputs fixed
InitStoreIdle ==
    /\ server = [accounts |-> <<>>, models |-> <<>>, modelConfig |-> EmptyMap]
    /\ filters = [account |-> sAll, family |-> sAll, search |-> sEmpty]
    /\ settings = [showExhausted |-> TRUE, showHiddenModels |-> FALSE]
    /\ InitStore
    /\ InitApp

InitHistory == InitStoreIdle /\ canvas = TRUE /\ InitDash

NextHistory ==
    \/ \E history \in Feeds : fetchHistoryOk(history)
    \/ fetchHistoryNotOk
    \/ fetchHistoryThrows
    \/ \E n \in TopNChoices : autoSelectTopN(n)
    \/ \E mode \in {"family", "model"} : setDisplayMode(mode)
    \/ \E i \in DOMAIN families : toggleFamily(families[i])
    \/ \E i \in DOMAIN families :
          \E k \in DOMAIN modelTree[families[i]] :
              toggleModel(families[i], modelTree[families[i]][k])
    \/ selectAll
    \/ deselectAll
    \/ Tick

SpecHistory == InitHistory /\ [][NextHistory]_vars

\* the longest selectedFamilies a component is started with
MaxSelected == 2

\* the selections a component can hold, and the records the storage can hold
\* before anything is saved
FamilyChoices == UNION { [1..n -> {sClaude, sGemini}] : n \in 0..MaxSelected }

ModelChoices ==
    UNION { [d -> {<<>>, <<sOpus>>, <<sFlash, sOpus>>}] : d \in SUBSET {sClaude, sGemini} }

InitPrefs ==
    /\ InitStoreIdle
    /\ storage \in {Null, Some(Unparsable), Some(EmptyMap)}
    /\ displayMode \in {"family", "model"}
    /\ selectedFamilies \in FamilyChoices
    /\ selectedModels \in ModelChoices
    /\ historyData = <<>>
    /\ usageStats = [total |-> 0, today |-> 0, thisHour |-> 0]
    /\ modelTree = EmptyMap
    /\ families = <<>>
    /\ hasTrendData = FALSE
    /\ trendChart = Null
    /\ canvas = TRUE
    /\ now = StartHour
    /\ lastOp = Op("init")
    /\ threw = FALSE
    /\ knownBefore = [families |-> {}, pairs |-> {}]
    /\ lastDeselected = Null
    /\ liveTrend = 0
    /\ historyFetched = FALSE

NextPrefs ==
    \/ savePreferences
    \/ loadPreferences

SpecPrefs == InitPrefs /\ [][NextPrefs]_vars

\* the dashboard before any history has come, with no saved preferences
InitDashIdle ==
    /\ storage = Null
    /\ canvas = TRUE
    /\ InitDash

\* the accounts of the snapshots the summary counters are checked on: core
\* models at and just above the floor of 0.05, other models only, no limits
StatsLimits ==
    { LimitsFull,
      (ClaudeOpus :> Limit(Some(50), Null)) @@ (GptOss :> Limit(Some(500), Some(4))),
      GeminiPro :> Limit(Some(51), Some(2)),
      GptOss :> Limit(Some(500), Null),
      GptOss :> Limit(Null, Some(1)),
      EmptyMap }

StatsAccountPool ==
    { Account(EmailA, en, st, lm) : en \in BOOLEAN, st \in {"ok", "error"}, lm \in StatsLimits }

StatsSnapshots ==
    [accounts : UNION { [1..n -> StatsAccountPool] : n \in 0..MaxAccounts },
     models : { <<ClaudeOpus, GeminiPro, GptOss>> },
     modelConfig : { EmptyMap }]

InitStats ==
    /\ server \in StatsSnapshots
    /\ filters = Filters(sAll, sAll, sEmpty)
    /\ settings = [showExhausted |-> TRUE, showHiddenModels |-> FALSE]
    /\ InitStore
    /\ InitApp
    /\ InitDashIdle

NextStats ==
    \/ fetchDataOk
    \/ updateStats

SpecStats == InitStats /\ [][NextStats]_vars

InitConfig ==
    /\ server \in ConfigSnapshots
    /\ filters = Filters(sAll, sAll, sEmpty)
    /\ settings = [showExhausted |-> TRUE, showHiddenModels |-> FALSE]
    /\ InitStore
    /\ InitApp
    /\ InitDashIdle

NextConfig ==
    \/ fetchDataOk
    \/ \E modelId \in {ClaudeOpus, GptOss}, configUpdates \in Patches :
          updateModelConfigOk(modelId, configUpdates)
    \/ \E modelId \in {ClaudeOpus, GptOss}, configUpdates \in Patches :
          updateModelConfigFails(modelId, configUpdates)

SpecConfig == InitConfig /\ [][NextConfig]_vars

\* both charts of the dashboard, on a page with and without their canvases
InitCharts ==
    /\ server \in ConfigSnapshots
    /\ filters = Filters(sAll, sAll, sEmpty)
    /\ settings = [showExhausted |-> TRUE, showHiddenModels |-> FALSE]
    /\ InitStore
    /\ InitApp
    /\ storage = Null
    /\ InitDash

NextCharts ==
    \/ fetchDataOk
    \/ updateCharts
    \/ \E history \in Feeds : fetchHistoryOk(history)
    \/ \E mode \in {"family", "model"} : setDisplayMode(mode)
    \/ \E i \in DOMAIN families : toggleFamily(families[i])
    \/ selectAll
    \/ deselectAll

SpecCharts == InitCharts /\ [][NextCharts]_vars

\* a feed whose window holds one family only
HistoryG ==
    << Bucket(StartHour - 1,
              << Obj(sGemini, <<Fld(sFlash, 3), Fld(sSubtotal, 3)>>),
                 Num(sTotalKey, 3) >>) >>

\* feeds whose window gains and loses families
TrendFeeds == { <<>>, HistoryA, HistoryG }

\* the trend chart under feeds that gain and lose families
InitTrend == InitStoreIdle /\ canvas = TRUE /\ InitDash

NextTrend ==
    \/ \E history \in TrendFeeds : fetchHistoryOk(history)
    \/ \E mode \in {"family", "model"} : setDisplayMode(mode)
    \/ \E i \in DOMAIN families : toggleFamily(families[i])
    \/ \E i \in DOMAIN families :
          \E k \in DOMAIN modelTree[families[i]] :
              toggleModel(families[i], modelTree[families[i]][k])
    \/ selectAll
    \/ deselectAll

SpecTrend == InitTrend /\ [][NextTrend]_vars

\* the tabs of the console: the dashboard, the models view, the account
\* manager and the log viewer (app.js:11-15)
Tabs == {"dashboard", "models", "accounts", "logs"}

\* the user opens another tab
activeTabChanges(tab) ==
    /\ tab # activeTab
    /\ activeTab' = tab
    /\ UNCHANGED <<refreshInterval, refreshTimer, timers, timerSeq>>
    /\ UNCHANGED storeVars
    /\ UNCHANGED dashVars

\* fetchHistory, with each of its outcomes
fetchHistory(history) ==
    \/ fetchHistoryOk(history)
    \/ fetchHistoryNotOk
    \/ fetchHistoryThrows

\* the dashboard's watchers once its tab is the active one: updateStats,
\* updateCharts, fetchHistory (dashboard.js:45-61)
dashboardWatch ==
    /\ activeTab = "dashboard"
    /\ \/ updateStats
       \/ updateCharts
       \/ fetchHistory(HistoryG)

\* the models view's watcher once its tab is the active one (part_000:11-18)
modelsWatch ==
    /\ activeTab = "models"
    /\ computeQuotaRows

\* a tick that fetches whatever the active tab
historyTimerTick_Unguarded == fetchHistory(HistoryG)

\* a tick of the dashboard's 5-minute timer (dashboard.js:72-77)
historyTimerTick ==
    IF activeTab = "dashboard" THEN fetchHistory(HistoryG) ELSE UNCHANGED vars

\* the values the refresh interval is set to
Intervals ==
    { NumV(DefaultInterval), NumV(30), NumV(0), NumV(0 - 5),
      StrV(<<"3", "0">>), StrV(<<"0">>), StrV(<<>>), Undefined }

\* the refresh timer over changes of the interval
InitTimers ==
    /\ server \in FetchSnapshots
    /\ filters = Filters(sAll, sAll, sEmpty)
    /\ settings = [showExhausted |-> TRUE, showHiddenModels |-> FALSE]
    /\ InitStore
    /\ InitDashIdle
    /\ \E setting \in {NumV(DefaultInterval), Undefined} : InitAppWith(setting, "dashboard")

NextTimers ==
    \/ \E setting \in Intervals : refreshIntervalChanged(setting)
    \/ refreshTimerTick
    \/ \E r \in inflight : fetchDataResponse(r)

SpecTimers == InitTimers /\ [][NextTimers]_vars

\* both timers over changes of the active tab
InitViews ==
    /\ server \in FetchSnapshots
    /\ filters = Filters(sAll, sAll, sEmpty)
    /\ settings = [showExhausted |-> TRUE, showHiddenModels |-> FALSE]
    /\ InitStore
    /\ InitDashIdle
    /\ \E tab \in Tabs : InitAppWith(NumV(DefaultInterval), tab)

NextViews ==
    \/ \E tab \in Tabs : activeTabChanges(tab)
    \/ dashboardWatch
    \/ modelsWatch
    \/ historyTimerTick
    \/ refreshTimerTick
    \/ \E r \in inflight : fetchDataResponse(r)

SpecViews == InitViews /\ [][NextViews]_vars

InitFetch ==
    /\ server \in FetchSnapshots
    /\ filters = Filters(sAll, sAll, sEmpty)
    /\ settings = [showExhausted |-> TRUE, showHiddenModels |-> FALSE]
    /\ InitStore
    /\ InitApp
    /\ InitDashIdle

NextFetch ==
    \/ fetchDataStart
    \/ \E r \in inflight : fetchDataResponse(r)
    \/ \E r \in inflight : fetchDataFails(r)
    \/ serverChanges

SpecFetch == InitFetch /\ [][NextFetch]_vars

InitQuota ==
    /\ server \in Snapshots
    /\ filters \in FilterSet
    /\ settings \in SettingsSet
    /\ InitStore
    /\ InitApp
    /\ InitDashIdle

NextQuota ==
    \/ fetchDataOk
    \/ computeQuotaRows
    \/ updateStats
    \/ updateCharts

SpecQuota == InitQuota /\ [][NextQuota]_vars

----------------------------------------------------------------------------
(* Properties of the quota rows and the unfiltered aggregate, under SpecQuota *)

Fetched == connectionStatus = "connected"

RowIds(rows) == {rows[i].modelId : i \in DOMAIN rows}

Unfiltered ==
    getUnfilteredQuotaData(models, accounts, modelConfig, settings.showHiddenModels)

\* C3: a disabled account (enabled = false) contributes nothing to any aggregate:
\* the quota rows, the unfiltered quota data and the counters are what they
\* would be with the disabled accounts removed from the snapshot.
C3_DisabledAccountsExcluded ==
    Fetched =>
      /\ quotaRows = ComputeQuotaRows(models, EnabledAccounts(accounts), modelConfig,
                                      filters, settings.showExhausted)
      /\ Unfiltered = getUnfilteredQuotaData(models, EnabledAccounts(accounts),
                                             modelConfig, settings.showHiddenModels)
      /\ ComputeStats(accounts) = ComputeStats(EnabledAccounts(accounts))

\* C4: a model whose config has hidden = true is in no quota row, whatever the
\* filters, showExhausted and showHiddenModels are.
C4_HiddenNeverInRows ==
    \A i \in DOMAIN quotaRows :
        ConfigOf(modelConfig, quotaRows[i].modelId).hidden # "true"

C4_Witness ==
    /\ Fetched
    /\ settings.showHiddenModels
    /\ filters.account = sAll /\ filters.family = sAll /\ filters.search = sEmpty
    /\ Len(quotaRows) > 0
    /\ \E i \in DOMAIN models :
          /\ ConfigOf(modelConfig, models[i]).hidden = "true"
          /\ \E a \in DOMAIN accounts : HasLimit(accounts[a], models[i])

OtherByDefault(m) ==
    /\ ~Includes(ToLowerCase(m), sClaude)
    /\ ~Includes(ToLowerCase(m), sGemini)
    /\ ConfigOf(modelConfig, m).hidden = "undefined"

\* C5: a listed model of family other with no explicit hidden setting is in no
\* quota row; it is not in the unfiltered quota data when showHiddenModels is
\* off, and it is there when showHiddenModels is on and some account has a
\* limit for it.
C5_OtherHiddenByDefault ==
    Fetched =>
      \A i \in DOMAIN models :
        OtherByDefault(models[i]) =>
          /\ models[i] \notin RowIds(quotaRows)
          /\ ~settings.showHiddenModels => models[i] \notin RowIds(Unfiltered)
          /\ ( /\ settings.showHiddenModels
               /\ \E a \in DOMAIN accounts : HasLimit(accounts[a], models[i]) )
             => models[i] \in RowIds(Unfiltered)

C5_Witness ==
    /\ Fetched
    /\ settings.showHiddenModels
    /\ \E i \in DOMAIN models :
          /\ OtherByDefault(models[i])
          /\ models[i] \in RowIds(Unfiltered)
          /\ models[i] \notin RowIds(quotaRows)
    /\ Len(quotaRows) > 0

\* the accounts that contribute to the row of modelId
Contributors(modelId) ==
    SelectSeq(accounts, LAMBDA acc :
        /\ filters.account = sAll \/ acc.email = filters.account
        /\ modelId \in DOMAIN acc.limits)

\* p is the integer percentage of a limit: 0 for null, else remainingFraction * 100
\* rounded to the nearest integer, halves up
IsPctOf(p, limit) ==
    IF limit.remainingFraction = Null THEN p = 0
    ELSE LET d == Val(limit.remainingFraction) - 10 * p IN -5 <= d /\ d < 5

RECURSIVE SeqSum(_)
SeqSum(q) == IF q = <<>> THEN 0 ELSE Head(q) + SeqSum(Tail(q))

\* C6: every quota row is made from exactly the accounts that pass the account
\* filter and have a limit for the row's model, in order; there is at least one;
\* minQuota is the least of their integer percentages and avgQuota their
\* arithmetic mean rounded to the nearest integer.
C6_RowAggregates ==
    \A i \in DOMAIN quotaRows :
      LET r == quotaRows[i]
          contrib == Contributors(r.modelId)
          n == Len(contrib)
          pcts == [k \in DOMAIN r.quotaInfo |-> r.quotaInfo[k].pct]
          d == 2 * n * r.avgQuota - 2 * SeqSum(pcts)
      IN  /\ n > 0
          /\ Len(r.quotaInfo) = n
          /\ \A k \in 1..n :
                /\ r.quotaInfo[k].fullEmail = contrib[k].email
                /\ IsPctOf(r.quotaInfo[k].pct, contrib[k].limits[r.modelId])
          /\ \E k \in 1..n : r.minQuota = pcts[k]
          /\ \A k \in 1..n : r.minQuota <= pcts[k]
          /\ -n < d /\ d <= n

C6_Witness ==
    /\ Fetched
    /\ \E i \in DOMAIN quotaRows :
          /\ Len(quotaRows[i].quotaInfo) = 2
          /\ quotaRows[i].minQuota < quotaRows[i].avgQuota
          /\ 2 * quotaRows[i].avgQuota
               # quotaRows[i].quotaInfo[1].pct + quotaRows[i].quotaInfo[2].pct
    /\ \E i \in DOMAIN quotaRows, a \in DOMAIN accounts :
          /\ Len(quotaRows[i].quotaInfo) = 1
          /\ ~HasLimit(accounts[a], quotaRows[i].modelId)

\* C7: in quotaRows a pinned row never follows an unpinned one, and among rows
\* of equal pinned status avgQuota does not increase.
C7_SortOrder ==
    \A i, j \in DOMAIN quotaRows :
        i < j =>
          /\ ~(quotaRows[j].pinned /\ ~quotaRows[i].pinned)
          /\ quotaRows[i].pinned = quotaRows[j].pinned
                => quotaRows[i].avgQuota >= quotaRows[j].avgQuota

C7_Witness ==
    /\ Fetched
    /\ Len(quotaRows) = 3
    /\ quotaRows # CollectRows(models, accounts, modelConfig, filters,
                               settings.showExhausted)
    /\ quotaRows[1].pinned /\ ~quotaRows[2].pinned
    /\ quotaRows[1].avgQuota < quotaRows[3].avgQuota
    /\ quotaRows[2].avgQuota > quotaRows[3].avgQuota

\* C8: the rows computed with showExhausted off are the rows computed with it on,
\* all else equal, without those whose minQuota is 0.
C8_ShowExhausted ==
    (Fetched /\ ~settings.showExhausted) =>
        quotaRows = SelectSeq(ComputeQuotaRows(models, accounts, modelConfig,
                                               filters, TRUE),
                              LAMBDA r : r.minQuota # 0)

C8_Witness ==
    /\ Fetched
    /\ ~settings.showExhausted
    /\ LET all == ComputeQuotaRows(models, accounts, modelConfig, filters, TRUE)
       IN  /\ \E i \in DOMAIN all : all[i].minQuota = 0
           /\ Len(quotaRows) > 0
           /\ Len(quotaRows) < Len(all)

----------------------------------------------------------------------------
(* Properties of the dashboard's selection, under SpecHistory *)

\* the (family, model) pairs of a selection
SelectedPairs == TreePairs(selectedModels)

\* C1: a family or a model the user has toggled off, and has not selected
\* again, stays deselected for as long as the feed still holds it, whatever
\* history refreshes happen in between: a refresh only appends what was not
\* known before.
C1_DeselectionsSticky ==
    ~IsNull(lastDeselected) =>
        LET d == Val(lastDeselected)
        IN  IF Len(d) = 1
            THEN d[1] \in DOMAIN modelTree => ~SeqIncludes(selectedFamilies, d[1])
            ELSE (d[1] \in DOMAIN modelTree /\ SeqIncludes(modelTree[d[1]], d[2])
                  /\ d[1] \in DOMAIN selectedModels)
                 => ~SeqIncludes(selectedModels[d[1]], d[2])

\* C2: after a history refresh, every family and every model that no earlier
\* modelTree held is selected; and when the refresh found both selectedFamilies
\* and selectedModels empty, the selection is everything discovered.
C2_NewIsSelected ==
    lastOp.op = "processHistory" =>
        /\ \A f \in DOMAIN modelTree \ knownBefore.families :
              SeqIncludes(selectedFamilies, f)
        /\ \A p \in TreePairs(modelTree) \ knownBefore.pairs :
              p[1] \in DOMAIN selectedModels /\ SeqIncludes(selectedModels[p[1]], p[2])
        /\ lastOp.firstRun =>
              /\ selectedFamilies = families
              /\ DOMAIN selectedModels = DOMAIN modelTree
              /\ \A f \in DOMAIN modelTree : selectedModels[f] = modelTree[f]

\* a refresh that was not the first run has brought a model no earlier tree held
C2_Witness ==
    /\ lastOp.op = "processHistory"
    /\ ~lastOp.firstRun
    /\ knownBefore.pairs # {}
    /\ TreePairs(modelTree) \ knownBefore.pairs # {}

\* the places of the feed that count a (family, model) pair inside the window
\* of the last 24 hours, as <<bucket, entry, field>>
PairPlaces(p) ==
    { <<b, e, k>> \in UNION { UNION { { <<b1, e1, k1>> :
                                         k1 \in DOMAIN historyData[b1].data[e1].fields }
                                     : e1 \in { e2 \in DOMAIN historyData[b1].data :
                                                  historyData[b1].data[e2].isObj } }
                              : b1 \in DOMAIN historyData } :
        /\ historyData[b].ts >= now - 24
        /\ historyData[b].data[e].key = p[1]
        /\ historyData[b].data[e].key # sTotalKey
        /\ historyData[b].data[e].fields[k].key = p[2]
        /\ historyData[b].data[e].fields[k].key # sSubtotal }

PairsSeen ==
    { p \in TreePairs(ModelTreeOf(historyData)) : PairPlaces(p) # {} }

RECURSIVE SumPlaces(_)
SumPlaces(places) ==
    IF places = {} THEN 0
    ELSE LET x == CHOOSE y \in places : TRUE
         IN  historyData[x[1]].data[x[2]].fields[x[3]].count + SumPlaces(places \ {x})

PairUsage(p) == SumPlaces(PairPlaces(p))

\* place x comes before place y in the iteration over the feed
PlaceBefore(x, y) ==
    \/ x[1] < y[1]
    \/ x[1] = y[1] /\ x[2] < y[2]
    \/ x[1] = y[1] /\ x[2] = y[2] /\ x[3] < y[3]

FirstPlace(p) ==
    CHOOSE x \in PairPlaces(p) : \A y \in PairPlaces(p) : y = x \/ PlaceBefore(x, y)

\* p ranks before q: more usage, or as much and seen first
RanksBefore(p, q) ==
    \/ PairUsage(p) > PairUsage(q)
    \/ PairUsage(p) = PairUsage(q) /\ PlaceBefore(FirstPlace(p), FirstPlace(q))

TopPairs(n) ==
    { p \in PairsSeen : Cardinality({ q \in PairsSeen : RanksBefore(q, p) }) < n }

NoRepeats(arr) == \A i, j \in DOMAIN arr : arr[i] = arr[j] => i = j

\* C9: after autoSelectTopN(n) the selected pairs are the first n of the pairs
\* counted in the buckets of the last 24 hours, ranked by summed usage with
\* ties in iteration order; selectedFamilies is the set of their families, each
\* once; nothing else of the earlier selection is left.
C9_TopNReplaces ==
    lastOp.op = "autoSelectTopN" =>
        LET top == TopPairs(lastOp.n)
        IN  /\ SelectedPairs = top
            /\ {selectedFamilies[i] : i \in DOMAIN selectedFamilies} = {p[1] : p \in top}
            /\ NoRepeats(selectedFamilies)
            /\ DOMAIN selectedModels = {p[1] : p \in top}
            /\ \A f \in DOMAIN selectedModels : NoRepeats(selectedModels[f])

\* autoSelectTopN has cut the ranking short, with a pair of the feed outside
\* the window that is left out
C9_Witness ==
    /\ lastOp.op = "autoSelectTopN"
    /\ Cardinality(PairsSeen) > lastOp.n
    /\ SelectedPairs # {}
    /\ TreePairs(modelTree) \ PairsSeen # {}

\* C10: after autoSelectTopN the stored record is the new selection and the
\* trend chart has been rebuilt from it.
C10_TopNSavesAndRedraws ==
    lastOp.op = "autoSelectTopN" =>
        /\ storage = Some(Prefs(displayMode, selectedFamilies, selectedModels))
        /\ trendChart = Some(TrendChartOf(displayMode, selectedFamilies, selectedModels,
                                          families, historyData))

\* C11: right after toggleFamily, toggleModel, setDisplayMode, selectAll or
\* deselectAll the stored record holds the displayMode, the selectedFamilies
\* and the selectedModels that are in memory.
C11_MutationsPersist ==
    lastOp.op = "user" =>
        /\ ~IsNull(storage)
        /\ Val(storage).displayMode = displayMode
        /\ Val(storage).selectedFamilies = selectedFamilies
        /\ Val(storage).selectedModels = selectedModels

\* a mutation has left a selection with families and models in it, in family mode
C11_Witness ==
    /\ lastOp.op = "user"
    /\ displayMode = "family"
    /\ selectedFamilies # <<>>
    /\ \E f \in DOMAIN selectedModels : selectedModels[f] # <<>>
    /\ \E f \in DOMAIN modelTree : ~SeqIncludes(selectedFamilies, f)

\* C12: loadPreferences on a fresh component right after savePreferences
\* leaves the displayMode, selectedFamilies and selectedModels that were
\* saved; with no record, or one that does not parse, it leaves the default
\* empty state; it never raises.
C12_PrefsRoundTrip ==
    [][lastOp'.op = "loadPreferences" =>
          /\ ~threw'
          /\ lastOp.op = "savePreferences" =>
                /\ displayMode' = displayMode
                /\ selectedFamilies' = selectedFamilies
                /\ selectedModels' = selectedModels
          /\ (IsNull(storage) \/ Val(storage) = Unparsable) =>
                /\ displayMode' = "model"
                /\ selectedFamilies' = <<>>
                /\ selectedModels' = EmptyMap]_vars

\* a saved record with families and models in it, in family mode, has been loaded
C12_Witness ==
    /\ lastOp.op = "loadPreferences"
    /\ ~IsNull(storage) /\ Val(storage) # Unparsable /\ Val(storage) # EmptyMap
    /\ displayMode = "family"
    /\ Len(selectedFamilies) = MaxSelected
    /\ \E f \in DOMAIN selectedModels : selectedModels[f] # <<>>

----------------------------------------------------------------------------
(* Properties of the summary counters, under SpecStats *)

\* the ids of an account's limits that name a core model
CoreIds(acc) == { id \in DOMAIN acc.limits : isCore(id) }

\* the ids of an account's limits with more than 0.05 remaining
FlushIds(acc) ==
    { id \in DOMAIN acc.limits :
        /\ acc.limits[id].remainingFraction # Null
        /\ Val(acc.limits[id].remainingFraction) > 50 }

ActiveByRule(acc) ==
    /\ acc.status = "ok"
    /\ \/ CoreIds(acc) \cap FlushIds(acc) # {}
       \/ CoreIds(acc) = {} /\ FlushIds(acc) # {}

\* C13: updateStats leaves total = the number of enabled accounts, active =
\* the number of them with status 'ok' and either a core limit above 0.05 or
\* no core limit and some limit above 0.05, and limited = all the others, so
\* that active + limited = total.
C13_StatsClassify ==
    [][updateStats =>
          LET enabled == { i \in DOMAIN accounts : accounts[i].enabled }
              active == { i \in enabled : ActiveByRule(accounts[i]) }
          IN  /\ stats'.total = Cardinality(enabled)
              /\ stats'.active = Cardinality(active)
              /\ stats'.limited = Cardinality(enabled \ active)
              /\ stats'.active + stats'.limited = stats'.total]_vars

\* counted: one active account, and one limited account whose core limit is at
\* the floor while another of its limits is above it
C13_Witness ==
    /\ stats.total = 2 /\ stats.active = 1 /\ stats.limited = 1
    /\ \E i \in DOMAIN accounts :
          /\ accounts[i].enabled /\ accounts[i].status = "ok"
          /\ CoreIds(accounts[i]) # {}
          /\ CoreIds(accounts[i]) \cap FlushIds(accounts[i]) = {}
          /\ FlushIds(accounts[i]) # {}

----------------------------------------------------------------------------
(* Properties of the snapshot fetch, under SpecFetch *)

\* C14 as stated: every OK response replaces accounts, models and modelConfig
\* by its own, a response without models included.
C14_ReplacedWholesale ==
    [][\A r \in inflight :
          fetchDataResponse(r) =>
              /\ accounts' = r.snap.accounts
              /\ models' = r.snap.models
              /\ modelConfig' = r.snap.modelConfig]_vars

\* C14, amended: every OK response replaces accounts and modelConfig by its
\* own, and models by its list when that list is not empty; a response with an
\* empty or missing models list leaves models as it was.
C14_ReplacedButModelsKept ==
    [][\A r \in inflight :
          fetchDataResponse(r) =>
              /\ accounts' = r.snap.accounts
              /\ modelConfig' = r.snap.modelConfig
              /\ r.snap.models # <<>> => models' = r.snap.models
              /\ r.snap.models = <<>> => models' = models]_vars

\* a response without models has come to a store that held models: the
\* accounts are the response's, the models the ones held before
C14_Witness ==
    /\ fetchLog # <<>>
    /\ fetchLog[Len(fetchLog)].ok
    /\ fetchLog[Len(fetchLog)].snap.models = <<>>
    /\ accounts = fetchLog[Len(fetchLog)].snap.accounts
    /\ models # <<>>

\* C15: a failed fetch sets connectionStatus to 'disconnected', raises one
\* error notification, leaves accounts, models, modelConfig and quotaRows as
\* they were and sends no new request; an OK response sets connectionStatus
\* to 'connected'.
C15_FetchFailure ==
    [][\A r \in inflight :
          /\ fetchDataFails(r) =>
                /\ connectionStatus' = "disconnected"
                /\ Len(toast') = Len(toast) + 1
                /\ toast'[Len(toast')].type = "error"
                /\ accounts' = accounts /\ models' = models
                /\ modelConfig' = modelConfig /\ quotaRows' = quotaRows
                /\ inflight' = inflight \ {r}
          /\ fetchDataResponse(r) => connectionStatus' = "connected"]_vars

\* a fetch has failed on a store that holds accounts and rows, and the next
\* one has succeeded
C15_Witness ==
    /\ Len(fetchLog) = 2
    /\ ~fetchLog[1].ok /\ fetchLog[2].ok
    /\ Len(toast) = 1
    /\ connectionStatus = "connected"
    /\ accounts # <<>>

\* the places of fetchLog that hold an OK response
OkPlaces == { i \in DOMAIN fetchLog : fetchLog[i].ok }

\* the OK response handled last
LastOk == fetchLog[CHOOSE i \in OkPlaces : \A j \in OkPlaces : j <= i]

\* C18: overlapping fetches are neither cancelled nor ordered: the store holds
\* the accounts, the modelConfig and (when it lists any) the models of the OK
\* response that arrived last, also when that response answers an earlier call
\* than a response handled before it.
C18_LastResponseWins ==
    OkPlaces # {} =>
        /\ accounts = LastOk.snap.accounts
        /\ modelConfig = LastOk.snap.modelConfig
        /\ LastOk.snap.models # <<>> => models = LastOk.snap.models

\* the response to the first call has arrived after the response to the
\* second, and the store holds the first call's data, older than what it held
C18_Witness ==
    /\ Len(fetchLog) = 2
    /\ fetchLog[1].ok /\ fetchLog[2].ok
    /\ fetchLog[1].id > fetchLog[2].id
    /\ fetchLog[1].snap.accounts # fetchLog[2].snap.accounts
    /\ accounts = fetchLog[2].snap.accounts
    /\ modelConfig = fetchLog[2].snap.modelConfig

----------------------------------------------------------------------------
(* Properties of the history fetch and of the trend chart, under SpecHistory *)

\* C16: once a call of fetchHistory has run to its end, whether the response
\* was OK, was not OK, or the request threw, stats.hasTrendData is true.
C16_TrendFlagSet == historyFetched => hasTrendData

----------------------------------------------------------------------------
(* Properties of the models view, under SpecConfig *)

ConfigKeys == {"hidden", "pinned"}

\* C17: updateModelConfig(modelId, patch) with an OK response leaves
\* modelConfig[modelId] with the patch's keys from the patch and its other keys
\* as before, every other model's config as before, and quotaRows computed
\* from the new config; with a non-OK response or a thrown error it leaves
\* modelConfig and quotaRows as they were and raises one error notification.
C17_ConfigUpdate ==
    [][\A modelId \in {ClaudeOpus, GptOss}, patch \in Patches :
          /\ updateModelConfigOk(modelId, patch) =>
                /\ DOMAIN modelConfig' = DOMAIN modelConfig \cup {modelId}
                /\ \A k \in DOMAIN patch : modelConfig'[modelId][k] = patch[k]
                /\ \A k \in ConfigKeys \ DOMAIN patch :
                      modelConfig'[modelId][k] =
                          IF modelId \in DOMAIN modelConfig
                          THEN modelConfig[modelId][k] ELSE "undefined"
                /\ \A other \in DOMAIN modelConfig \ {modelId} :
                      modelConfig'[other] = modelConfig[other]
                /\ quotaRows' = ComputeQuotaRows(models, accounts, modelConfig', filters,
                                                 settings.showExhausted)
                /\ toast' = toast
          /\ updateModelConfigFails(modelId, patch) =>
                /\ modelConfig' = modelConfig
                /\ quotaRows' = quotaRows
                /\ Len(toast') = Len(toast) + 1
                /\ toast'[Len(toast')].type = "error"]_vars

\* a model pinned on the server has been unhidden by a patch of hidden alone:
\* its pin is kept, its row has appeared, and an update has failed as well
C17_Witness ==
    /\ GptOss \in DOMAIN modelConfig
    /\ modelConfig[GptOss] = Config("false", "true")
    /\ \E i \in DOMAIN quotaRows : quotaRows[i].modelId = GptOss
    /\ toast # <<>>

----------------------------------------------------------------------------
(* Properties of the chart slots, under SpecCharts *)

\* C19: over any sequence of calls of updateTrendChart and updateCharts, at
\* most one chart that has not been destroyed exists for the usageTrend slot
\* and at most one for the quotaDistribution slot.
C19_OneChartPerSlot == liveTrend <= 1 /\ liveQuota <= 1

\* the trend chart has been built from a feed and then rebuilt by a change of
\* the display mode, the quota chart has been built from a snapshot, and each
\* slot holds its one chart
C19_Witness ==
    /\ canvas
    /\ lastOp.op = "user"
    /\ displayMode = "family"
    /\ historyData # <<>>
    /\ ~IsNull(trendChart)
    /\ Val(trendChart).labels # <<>>
    /\ accounts # <<>>
    /\ ~IsNull(quotaChart)
    /\ liveTrend = 1
    /\ liveQuota = 1

----------------------------------------------------------------------------
(* Properties of the trend chart's contents, under SpecTrend *)

\* the chart in the slot was built from the present state: processHistory or
\* a selection handler has just run on a page with the canvas
TrendChartFresh ==
    canvas /\ lastOp.op \in {"processHistory", "user"} /\ ~IsNull(trendChart)

\* the places of the selected (family, model) pairs
SelectedPlaces ==
    UNION { {<<f, k>> : k \in DOMAIN selectedModels[f]} : f \in DOMAIN selectedModels }

\* C20: the trend chart built by updateTrendChart has one label per history
\* bucket and every series has one point per bucket, absent values being 0; in
\* family mode there is exactly one series per entry of selectedFamilies, its
\* points the buckets' _subtotal of that family; in model mode there is exactly
\* one series per pair (family, model) with model in selectedModels[family],
\* its points the buckets' count of that model.
C20_TrendChartShape ==
    TrendChartFresh =>
        LET chart == Val(trendChart)
        IN  /\ Len(chart.labels) = Len(historyData)
            /\ \A i \in DOMAIN chart.datasets :
                  Len(chart.datasets[i].data) = Len(historyData)
            /\ displayMode = "family" =>
                  /\ Len(chart.datasets) = Len(selectedFamilies)
                  /\ \A k \in DOMAIN selectedFamilies :
                        /\ chart.datasets[k].family = selectedFamilies[k]
                        /\ \A b \in DOMAIN historyData :
                              chart.datasets[k].data[b] =
                                  SubtotalOf(historyData[b].data, selectedFamilies[k])
            /\ displayMode = "model" =>
                  /\ Len(chart.datasets) = Cardinality(SelectedPlaces)
                  /\ \A pair \in SelectedPlaces :
                        \E i \in DOMAIN chart.datasets :
                            /\ chart.datasets[i].family = pair[1]
                            /\ chart.datasets[i].label = selectedModels[pair[1]][pair[2]]
                            /\ \A b \in DOMAIN historyData :
                                  chart.datasets[i].data[b] =
                                      CountOf(historyData[b].data, pair[1],
                                              selectedModels[pair[1]][pair[2]])

----------------------------------------------------------------------------
(* Properties of the model tree, under SpecTrend *)

\* the entries of a feed that are family objects, and what the feed holds
FeedObjects(history) ==
    UNION { {history[b].data[i] : i \in DOMAIN history[b].data} : b \in DOMAIN history }

FeedFamilies(history) ==
    { e.key : e \in { x \in FeedObjects(history) :
                         x.isObj /\ x.key \notin {sTotalKey, sTotalOld} } }

FeedModels(history, family) ==
    UNION { { e.fields[i].key : i \in DOMAIN e.fields } \ {sSubtotal} :
              e \in { x \in FeedObjects(history) : x.isObj /\ x.key = family } }

StrictlySorted(arr) ==
    \A i, j \in DOMAIN arr : i < j => StrLess(arr[i], arr[j])

Elems(arr) == { arr[i] : i \in DOMAIN arr }

\* C21: over any two consecutive runs of processHistory, every family and
\* every model present in modelTree after the earlier run is still present
\* after the later run; after each run modelTree[f] is the sorted set of the
\* non-_subtotal keys seen under f in that feed and families is the sorted
\* key list of modelTree.
C21_TreeGrows ==
    [][\A history \in TrendFeeds :
          fetchHistoryOk(history) =>
             /\ DOMAIN modelTree \subseteq DOMAIN modelTree'
             /\ \A f \in DOMAIN modelTree :
                   Elems(modelTree[f]) \subseteq Elems(modelTree'[f])
             /\ DOMAIN modelTree' = FeedFamilies(history)
             /\ \A f \in DOMAIN modelTree' :
                   /\ StrictlySorted(modelTree'[f])
                   /\ Elems(modelTree'[f]) = FeedModels(history, f)
             /\ StrictlySorted(families')
             /\ Elems(families') = DOMAIN modelTree']_vars

\* C21, amended: after each run of processHistory modelTree[f] is the sorted
\* set of the non-_subtotal keys seen under f in that feed and families is the
\* sorted key list of modelTree; a family or a model present after the earlier
\* run is present after the later run exactly when the later feed holds it.
C21_TreeFollowsFeed ==
    [][\A history \in TrendFeeds :
          fetchHistoryOk(history) =>
             /\ DOMAIN modelTree' = FeedFamilies(history)
             /\ \A f \in DOMAIN modelTree' :
                   /\ StrictlySorted(modelTree'[f])
                   /\ Elems(modelTree'[f]) = FeedModels(history, f)
             /\ StrictlySorted(families')
             /\ Elems(families') = DOMAIN modelTree'
             /\ \A f \in DOMAIN modelTree :
                   /\ f \in DOMAIN modelTree' <=> f \in FeedFamilies(history)
                   /\ \A m \in Elems(modelTree[f]) :
                         (f \in DOMAIN modelTree' /\ m \in Elems(modelTree'[f]))
                             <=> m \in FeedModels(history, f)]_vars

\* a feed of two families, one with two models, has been followed by a feed
\* of one family: the tree holds that family alone
C21_Witness ==
    /\ lastOp.op = "processHistory"
    /\ historyData = HistoryG
    /\ sClaude \in knownBefore.families
    /\ <<sClaude, sOpus>> \in knownBefore.pairs
    /\ DOMAIN modelTree = {sGemini}
    /\ families = <<sGemini>>

----------------------------------------------------------------------------
(* Properties of the saved selection after a history refresh, under SpecTrend *)

\* C23: after processHistory has run, the saved preference record's
\* selectedFamilies and selectedModels equal the component's, both when the
\* first-run branch of autoSelectNew selected everything and when its other
\* branch appended newly found families or models.
C23_AutoSelectionSaved ==
    lastOp.op = "processHistory" =>
        /\ ~IsNull(storage)
        /\ Val(storage).selectedFamilies = selectedFamilies
        /\ Val(storage).selectedModels = selectedModels

----------------------------------------------------------------------------
(* Properties of the loading flag, under SpecFetch *)

\* C24: loading is true whenever a call of fetchData has been started and has
\* not yet completed, and is false only when no call is in flight, overlapping
\* calls included.
C24_LoadingTracksInflight == loading <=> inflight # {}

----------------------------------------------------------------------------
(* Properties of the timers, under SpecViews and SpecTimers *)

\* the views that show the snapshot: the dashboard, the models view and the
\* account manager
SnapshotViews == {"dashboard", "models", "accounts"}

\* C22: the 5-minute history timer calls fetchHistory only when activeTab is
\* 'dashboard', and the periodic full refresh calls fetchData only while its
\* view is active: no tick of either timer produces a fetch while the view it
\* serves is inactive.
C22_TimersFollowView ==
    [][/\ (historyTimerTick /\ activeTab # "dashboard") => UNCHANGED dashVars
       /\ (refreshTimerTick /\ activeTab \notin SnapshotViews) => UNCHANGED inflight]_vars

\* C22, amended: a tick of the 5-minute history timer produces no fetch while
\* activeTab is not 'dashboard'; the periodic full refresh is tied to no view,
\* every tick of its timer starts a fetchData call whatever the active tab.
C22_HistoryTimerFollowsView ==
    [][/\ (historyTimerTick /\ activeTab # "dashboard") => UNCHANGED dashVars
       /\ refreshTimerTick => Cardinality(inflight') = Cardinality(inflight) + 1]_vars

\* the history has been fetched on the dashboard, the log viewer is now the
\* active tab, and snapshot fetches have been answered and started
C22_Witness ==
    /\ activeTab = "logs"
    /\ historyFetched
    /\ historyData = HistoryG
    /\ fetchLog # <<>>
    /\ inflight # {}

\* the interval the setting configures, when it configures one
NotPositive(setting) ==
    /\ setting.kind \in {"number", "string"}
    /\ ~IsNull(ParseInt(setting))
    /\ Val(ParseInt(setting)) <= 0

\* C25: at most one periodic refresh timer is active at any time, over any
\* sequence of startAutoRefresh calls, and when the configured interval is not
\* positive no timer is scheduled.
C25_OneRefreshTimer ==
    /\ Cardinality(timers) <= 1
    /\ NotPositive(refreshInterval) => timers = {}

====
